---- MODULE Spec2Model ----
(***************************************************************************)
(* docbrown: the cache manager (internal/cache), the component detector    *)
(* (internal/analyzer/detector.go) and the generate pipeline               *)
(* (internal/orchestrator/orchestrator.go) as state machines.              *)
(*                                                                         *)
(* A path is a sequence of path segments, <<"services","api","main.go">>.  *)
(* A byte string is a sequence of tokens; the tokens of one specification  *)
(* form a prefix-free code, so two token sequences are equal exactly when  *)
(* the byte strings they spell are equal.                                  *)
(***************************************************************************)
EXTENDS Integers, Sequences, FiniteSets, TLC

VARIABLES
    fs,       \* the working tree: path -> [ok, data] (ok = FALSE: cannot be opened)
    now,      \* the wall clock
    disk,     \* the cache file: [exists, doc]
    mgr,      \* per process: the cache.Manager [enabled, ttl, cache]
    upd,      \* history: per component name, the most recent Update call
    ret,      \* the API call that has just returned (cleared by any other step)
    det,      \* the detector: its rootPath and what DetectComponents has returned
    run,      \* per process: the command it runs and how far it has come
    hist,     \* history of the runs: [started, lastSaver, base, cleared]
    scan,     \* the scanner: its excludePatterns and what each Scan call returned
    pool      \* the LLM pool: its semaphore, its callers, the GenerateParallel call

vars == <<fs, now, disk, mgr, upd, ret, det, run, hist, scan, pool>>

(***************************************************************************)
(* Bounds of the model.                                                    *)
(***************************************************************************)
MaxTime == 1
MaxTTL == 1
MaxContentLen == 1
MaxRuns == 2
MaxEdits == 1

Procs == {1, 2}
Names == {"a", "b"}

(***************************************************************************)
(* Byte strings.                                                           *)
(***************************************************************************)
RECURSIVE PathBytes(_)
PathBytes(p) ==
    IF Len(p) <= 1 THEN p ELSE <<Head(p), "/">> \o PathBytes(Tail(p))

SeqsUpTo(S, n) == UNION {[1..k -> S] : k \in 0..n}

NoFile == [ok |-> FALSE, data |-> <<>>]
File(bytes) == [ok |-> TRUE, data |-> bytes]

\* io.Copy(h, f) after a successful os.Open; nothing is written when Open fails
ReadForHash(fsys, file) ==
    IF file \in DOMAIN fsys /\ fsys[file].ok THEN fsys[file].data ELSE <<>>

\* sha256 + hex, taken as injective on the bytes written to it
Sum(bytes) == [sha256 |-> bytes]

RECURSIVE hashInput(_, _)
hashInput(fsys, files) ==
    IF files = <<>> THEN <<>>
    ELSE PathBytes(Head(files)) \o ReadForHash(fsys, Head(files))
         \o hashInput(fsys, Tail(files))

hashFiles(fsys, files) == Sum(hashInput(fsys, files))

hashComponent(fsys, name, files) == Sum(<<name, hashFiles(fsys, files)>>)

(***************************************************************************)
(* cache.Manager                                                           *)
(***************************************************************************)
EmptyMap == [n \in {} |-> 0]

NewCache == [Version |-> "1.0", LastRun |-> 0, Components |-> EmptyMap]

NewManager(enabled, ttl) == [enabled |-> enabled, ttl |-> ttl, cache |-> NewCache]

\* a map that keeps the new entry alone
Put_Alone(map, k, v) == [n \in {k} |-> v]

Put(map, k, v) == [n \in DOMAIN map \cup {k} |-> IF n = k THEN v ELSE map[n]]

ComponentCache(fsys, t, name, files) ==
    [Hash          |-> hashComponent(fsys, name, files),
     FilesHash     |-> hashFiles(fsys, files),
     LastGenerated |-> t,
     Files         |-> files]

Expired_AtTTL(m, cached, t) == t - cached.LastGenerated >= m.ttl

Expired(m, cached, t) == t - cached.LastGenerated > m.ttl

StaleWhy_HashFirst(m, fsys, t, name, files) ==
    IF ~m.enabled THEN "disabled"
    ELSE IF name \notin DOMAIN m.cache.Components THEN "not cached"
    ELSE IF hashFiles(fsys, files) # m.cache.Components[name].FilesHash THEN "modified"
    ELSE IF Expired(m, m.cache.Components[name], t) THEN "expired"
    ELSE "valid"

\* Manager.IsStale, with the return statement that decided
StaleWhy(m, fsys, t, name, files) ==
    IF ~m.enabled THEN "disabled"
    ELSE IF name \notin DOMAIN m.cache.Components THEN "not cached"
    ELSE IF Expired(m, m.cache.Components[name], t) THEN "expired"
    ELSE IF hashFiles(fsys, files) # m.cache.Components[name].FilesHash THEN "modified"
    ELSE "valid"

IsStale(m, fsys, t, name, files) == StaleWhy(m, fsys, t, name, files) # "valid"

Update_KeepTimestamp(m, fsys, t, name, files) ==
    IF ~m.enabled THEN m
    ELSE [m EXCEPT !.cache.Components =
              Put(@, name,
                  [ComponentCache(fsys, t, name, files) EXCEPT !.LastGenerated =
                       IF name \in DOMAIN m.cache.Components
                       THEN m.cache.Components[name].LastGenerated ELSE t])]

\* Manager.Update: the manager afterwards
Update(m, fsys, t, name, files) ==
    IF ~m.enabled THEN m
    ELSE [m EXCEPT !.cache.Components =
              Put(@, name, ComponentCache(fsys, t, name, files))]

(***************************************************************************)
(* The cache file.  yaml.Marshal writes the struct under its yaml keys;    *)
(* yaml.Unmarshal into the manager's cache sets the scalar fields and adds *)
(* the document's entries to the map the cache already holds.              *)
(***************************************************************************)
MarshalEntry(e) ==
    [hash |-> e.Hash, files_hash |-> e.FilesHash,
     last_generated |-> e.LastGenerated, files |-> e.Files]
UnmarshalEntry(y) ==
    [Hash |-> y.hash, FilesHash |-> y.files_hash,
     LastGenerated |-> y.last_generated, Files |-> y.files]

Marshal(cache) ==
    [version |-> cache.Version, last_run |-> cache.LastRun,
     components |-> [n \in DOMAIN cache.Components |->
                        MarshalEntry(cache.Components[n])]]

Unmarshal(doc, into) ==
    [Version |-> doc.version, LastRun |-> doc.last_run,
     Components |-> [n \in DOMAIN into.Components \cup DOMAIN doc.components |->
                        IF n \in DOMAIN doc.components
                        THEN UnmarshalEntry(doc.components[n])
                        ELSE into.Components[n]]]

NoCacheFile == [exists |-> FALSE, doc |-> Marshal(NewCache)]

\* Manager.Load: the manager afterwards
Load(m, d) ==
    IF ~m.enabled \/ ~d.exists THEN m
    ELSE [m EXCEPT !.cache = Unmarshal(d.doc, m.cache)]

\* Manager.Save: the manager afterwards, and the file it leaves
SaveManager(m, t) == IF ~m.enabled THEN m ELSE [m EXCEPT !.cache.LastRun = t]

\* a variant that keeps the entries of the file the saver does not hold
SaveFile_Merge(m, t, d) ==
    IF ~m.enabled THEN d
    ELSE IF ~d.exists THEN [exists |-> TRUE, doc |-> Marshal(SaveManager(m, t).cache)]
    ELSE [exists |-> TRUE,
          doc |-> Marshal([SaveManager(m, t).cache EXCEPT !.Components =
                     [n \in DOMAIN m.cache.Components \cup DOMAIN d.doc.components |->
                         IF n \in DOMAIN m.cache.Components
                         THEN m.cache.Components[n]
                         ELSE UnmarshalEntry(d.doc.components[n])]])]
SaveFile(m, t, d) ==
    IF ~m.enabled THEN d
    ELSE [exists |-> TRUE, doc |-> Marshal(SaveManager(m, t).cache)]

\* Manager.Clear: the manager afterwards, the file it leaves, and its error
ClearManager(m) == IF ~m.enabled THEN m ELSE [m EXCEPT !.cache = NewCache]
ClearFile(m, d, removeOk) ==
    IF ~m.enabled THEN d
    ELSE IF removeOk \/ ~d.exists THEN NoCacheFile
    ELSE d
ClearError(m, d, removeOk) == m.enabled /\ d.exists /\ ~removeOk

IdleRun ==
    [pc |-> "idle", cmd |-> "", components |-> <<>>, toGen |-> <<>>,
     enriched |-> <<>>, result |-> "", llmCalls |-> 0,
     alone |-> FALSE, afterBase |-> FALSE, fresh |-> FALSE]
NoHist ==
    [started |-> 0, edits |-> 0, lastSaver |-> 0, base |-> FALSE, cleared |-> FALSE]

\* the component name the directly driven API calls use
ApiNames == {"a"}

\* what the listed files hold, in list order
DataOf(fsys, files) == [i \in 1..Len(files) |-> fsys[files[i]]]

NoCall == [called |-> FALSE, files |-> <<>>, dataAt |-> <<>>, at |-> 0]
NoRet == [op |-> "none", name |-> "", files |-> <<>>, stale |-> FALSE, why |-> "",
          had |-> FALSE]

\* a Scanner that has been given no patterns and has not scanned yet
NoScan == [excludePatterns |-> <<>>, runs |-> <<>>]

\* the LLM pool: at most MaxRequests requests are generated in parallel, by
\* the goroutines 1..MaxRequests; goroutine 0 calls the pool by itself
MaxRequests == 3
Limits == {-1, 0, 1, 2}
Requests == [i \in 1..MaxRequests |-> <<"request", i>>]
Workers == 1..MaxRequests
Direct == 0
Goroutines == Workers \cup {Direct}
NotCalled == [pc |-> "none", ran |-> 0, out |-> <<>>, err |-> ""]
NoPool ==
    [limit |-> 0, maxConcurrent |-> 0, semaphore |-> 0, ctxDone |-> FALSE,
     call |-> [g \in Goroutines |-> NotCalled],
     gp |-> "idle", requests |-> <<>>, results |-> <<>>, errors |-> <<>>, wg |-> 0,
     ret |-> [results |-> <<>>, failed |-> -1],
     faults |-> [d \in {} |-> "ok"]]

(***************************************************************************)
(* The working tree as the detector sees it.  A file exists when its entry *)
(* is ok; a directory exists when a file lies below it (the root always).  *)
(* Paths are relative to the working directory; the root path given to the *)
(* detector is "." (orchestrator.go:39), written <<>>, unless a            *)
(* specification starts the detector on another one.                       *)
(***************************************************************************)
\* Detector.rootPath
rootPath == det.rootPath

\* every file and directory name of the model, in byte order (sort.Strings)
NameOrder ==
    <<".git", ".gitignore", "Cargo.toml", "Dockerfile", "Gemfile",
      "README.md", "a", "api", "app.csproj", "app.py", "apps", "b", "build",
      "build.gradle", "build.gradle.kts", "cmd", "config", "data.txt",
      "dep.js", "docs", "gen.go", "go.mod", "guide.md", "lib_test.go",
      "main.go", "main.py", "main_test.go", "node_modules", "package.json",
      "pom.xml", "pyproject.toml", "react.js", "repo", "requirements.txt",
      "routes.rb", "secret",
      "services", "setup.py", "src", "test", "tool", "vendor", "web", "x", "y">>

\* filepath.Ext of a name
Ext(n) ==
    CASE n \in {"main.go", "gen.go", "lib_test.go", "main_test.go"} -> ".go"
      [] n \in {"app.py", "main.py", "setup.py"} -> ".py"
      [] n \in {"Cargo.toml", "pyproject.toml"} -> ".toml"
      [] n = "app.csproj" -> ".csproj"
      [] n = "build.gradle" -> ".gradle"
      [] n = "build.gradle.kts" -> ".kts"
      [] n = "go.mod" -> ".mod"
      [] n = "package.json" -> ".json"
      [] n = "pom.xml" -> ".xml"
      [] n \in {"react.js", "dep.js"} -> ".js"
      [] n \in {"data.txt", "requirements.txt"} -> ".txt"
      [] n = "routes.rb" -> ".rb"
      [] n \in {"README.md", "guide.md"} -> ".md"
      [] n = ".git" -> ".git"
      [] n = ".gitignore" -> ".gitignore"
      [] OTHER -> ""

\* strings.HasPrefix(name, "main.")
HasMainPrefix(n) == n \in {"main.go", "main.py"}

\* strings.Contains(strings.ToLower(name), substring)
LowerContains(n, substring) == <<n, substring>> \in {<<"react.js", "react">>}

\* strings.HasSuffix(base, pattern) for one of isTestFile's patterns
HasTestSuffix(n) == n \in {"lib_test.go", "main_test.go"}

\* filepath.Match for the patterns the detector uses
AnyName == [kind |-> "any"]
ExtPat(e) == [kind |-> "ext", arg |-> e]
Lit(n) == [kind |-> "lit", arg |-> n]
MainPat == [kind |-> "main"]

Match(pat, n) ==
    CASE pat.kind = "any" -> TRUE
      [] pat.kind = "ext" -> Ext(n) = pat.arg
      [] pat.kind = "lit" -> n = pat.arg
      [] pat.kind = "main" -> HasMainPrefix(n)

Base(p) == IF p = <<>> THEN "." ELSE p[Len(p)]
Dir(p) == IF p = <<>> THEN <<>> ELSE SubSeq(p, 1, Len(p) - 1)

IsPrefix(d, p) == Len(d) < Len(p) /\ SubSeq(p, 1, Len(d)) = d
FilesOf(fsys) == {p \in DOMAIN fsys : fsys[p].ok}
IsFile(fsys, p) == p \in FilesOf(fsys)
IsDir(fsys, d) == d = <<>> \/ \E p \in FilesOf(fsys) : IsPrefix(d, p)
Stat(fsys, p) == IsFile(fsys, p) \/ IsDir(fsys, p)

\* os.ReadDir: the names in a directory, sorted
ReadDir(fsys, d) ==
    LET names == {p[Len(d) + 1] : p \in {q \in FilesOf(fsys) : IsPrefix(d, q)}}
    IN SelectSeq(NameOrder, LAMBDA n : n \in names)

\* filepath.Glob(filepath.Join(dir, pattern)) for a pattern without a slash
Glob(fsys, d, pat) ==
    IF ~IsDir(fsys, d) THEN <<>>
    ELSE LET hit == SelectSeq(ReadDir(fsys, d), LAMBDA n : Match(pat, n))
         IN [i \in 1..Len(hit) |-> d \o <<hit[i]>>]

fileExists(fsys, path) == Stat(fsys, rootPath \o path)
dirHasFile(fsys, dir, pat) == Len(Glob(fsys, dir, pat)) > 0
dirContains(fsys, dir, substring) ==
    IsDir(fsys, dir) /\
    \E i \in 1..Len(ReadDir(fsys, dir)) : LowerContains(ReadDir(fsys, dir)[i], substring)

isSourceFile(p) ==
    Ext(Base(p)) \in {".go", ".py", ".js", ".ts", ".jsx", ".tsx",
                      ".java", ".rs", ".rb", ".php", ".c", ".cpp"}

\* "/test/" or "/tests/" inside the path string: a segment that is neither
\* the first nor the last
isTestFile(p) ==
    \/ HasTestSuffix(Base(p))
    \/ \E i \in 2..(Len(p) - 1) : p[i] \in {"test", "tests"}

(***************************************************************************)
(* Detector                                                                *)
(***************************************************************************)
Component(name, type, language, path) ==
    [Name |-> name, Type |-> type, Language |-> language, Path |-> path,
     Files |-> <<>>, Description |-> <<>>, HasTests |-> FALSE,
     Dependencies |-> <<>>]

analyzeDirectory(fsys, dir) ==
    LET language ==
            IF dirHasFile(fsys, dir, ExtPat(".go")) THEN "go"
            ELSE IF dirHasFile(fsys, dir, ExtPat(".py")) THEN "python"
            ELSE IF dirHasFile(fsys, dir, ExtPat(".ts"))
                    \/ dirHasFile(fsys, dir, ExtPat(".js")) THEN "typescript"
            ELSE IF dirHasFile(fsys, dir, ExtPat(".rs")) THEN "rust"
            ELSE IF dirHasFile(fsys, dir, ExtPat(".java")) THEN "java"
            ELSE IF dirHasFile(fsys, dir, ExtPat(".rb")) THEN "ruby"
            ELSE IF dirHasFile(fsys, dir, ExtPat(".cs")) THEN "csharp"
            ELSE ""
        type ==
            IF dirHasFile(fsys, dir, Lit("Dockerfile")) THEN "service"
            ELSE IF dirHasFile(fsys, dir, Lit("package.json"))
                 THEN IF dirContains(fsys, dir, "react")
                         \/ dirContains(fsys, dir, "vue")
                         \/ dirContains(fsys, dir, "angular")
                      THEN "frontend" ELSE "service"
            ELSE "library"
    IN Component(Base(dir), type, language, dir)

RECURSIVE analyzeAll(_, _)
analyzeAll(fsys, dirs) ==
    IF dirs = <<>> THEN <<>>
    ELSE <<analyzeDirectory(fsys, Head(dirs))>> \o analyzeAll(fsys, Tail(dirs))

MonorepoPatterns == <<"services", "apps", "packages", "libs">>

RECURSIVE monorepoFrom(_, _)
monorepoFrom(fsys, parents) ==
    IF parents = <<>> THEN <<>>
    ELSE LET dirs == SelectSeq(Glob(fsys, rootPath \o <<Head(parents)>>, AnyName),
                               LAMBDA d : IsDir(fsys, d))
         IN analyzeAll(fsys, dirs) \o monorepoFrom(fsys, Tail(parents))

detectMonorepo(fsys) == monorepoFrom(fsys, MonorepoPatterns)

detectGoComponentType(fsys) ==
    IF fileExists(fsys, <<"cmd">>) \/ fileExists(fsys, <<"main.go">>)
    THEN "service" ELSE "library"
detectPythonComponentType(fsys) ==
    IF fileExists(fsys, <<"Dockerfile">>) THEN "service" ELSE "library"
detectNodeComponentType(fsys) ==
    IF fileExists(fsys, <<"Dockerfile">>) THEN "service" ELSE "library"

\* a variant that looks for the Python manifests before go.mod
detectSingleComponent_PythonFirst(fsys) ==
    LET name == Base(rootPath)
    IN IF fileExists(fsys, <<"setup.py">>) \/ fileExists(fsys, <<"pyproject.toml">>)
       THEN <<Component(name, detectPythonComponentType(fsys), "python", <<>>)>>
       ELSE IF fileExists(fsys, <<"go.mod">>)
       THEN <<Component(name, detectGoComponentType(fsys), "go", <<>>)>>
       ELSE IF fileExists(fsys, <<"package.json">>)
       THEN <<Component(name, detectNodeComponentType(fsys), "javascript", <<>>)>>
       ELSE IF fileExists(fsys, <<"Cargo.toml">>)
       THEN <<Component(name, "service", "rust", <<>>)>>
       ELSE IF fileExists(fsys, <<"pom.xml">>) \/ fileExists(fsys, <<"build.gradle">>)
               \/ fileExists(fsys, <<"build.gradle.kts">>)
       THEN <<Component(name, "service", "java", <<>>)>>
       ELSE IF fileExists(fsys, <<"Gemfile">>)
       THEN <<Component(name,
                        IF fileExists(fsys, <<"config", "routes.rb">>)
                        THEN "service" ELSE "library",
                        "ruby", <<>>)>>
       ELSE IF dirHasFile(fsys, <<>>, ExtPat(".csproj")) \/ fileExists(fsys, <<"*.sln">>)
       THEN <<Component(name, "service", "csharp", <<>>)>>
       ELSE <<>>

\* detectSingleComponent: <<>> for nil, else <<the component>>
detectSingleComponent(fsys) ==
    LET name == Base(rootPath)
    IN IF fileExists(fsys, <<"go.mod">>)
       THEN <<Component(name, detectGoComponentType(fsys), "go", <<>>)>>
       ELSE IF fileExists(fsys, <<"setup.py">>) \/ fileExists(fsys, <<"pyproject.toml">>)
       THEN <<Component(name, detectPythonComponentType(fsys), "python", <<>>)>>
       ELSE IF fileExists(fsys, <<"package.json">>)
       THEN <<Component(name, detectNodeComponentType(fsys), "javascript", <<>>)>>
       ELSE IF fileExists(fsys, <<"Cargo.toml">>)
       THEN <<Component(name, "service", "rust", <<>>)>>
       ELSE IF fileExists(fsys, <<"pom.xml">>) \/ fileExists(fsys, <<"build.gradle">>)
               \/ fileExists(fsys, <<"build.gradle.kts">>)
       THEN <<Component(name, "service", "java", <<>>)>>
       ELSE IF fileExists(fsys, <<"Gemfile">>)
       THEN <<Component(name,
                        IF fileExists(fsys, <<"config", "routes.rb">>)
                        THEN "service" ELSE "library",
                        "ruby", <<>>)>>
       ELSE IF dirHasFile(fsys, <<>>, ExtPat(".csproj")) \/ fileExists(fsys, <<"*.sln">>)
       THEN <<Component(name, "service", "csharp", <<>>)>>
       ELSE <<>>

\* the entry-point globs: [the directory globbed, the pattern]
EntryPoints == <<[dir |-> <<"cmd">>, pat |-> AnyName],
                 [dir |-> <<"src">>, pat |-> MainPat],
                 [dir |-> <<>>, pat |-> MainPat]>>

RECURSIVE byDirectoryFrom(_, _)
byDirectoryFrom(fsys, entries) ==
    IF entries = <<>> THEN <<>>
    ELSE LET matches == Glob(fsys, rootPath \o Head(entries).dir, Head(entries).pat)
             dirs == [i \in 1..Len(matches) |-> Dir(matches[i])]
         IN analyzeAll(fsys, dirs) \o byDirectoryFrom(fsys, Tail(entries))

detectByDirectory(fsys) == byDirectoryFrom(fsys, EntryPoints)

SkipDirs == {"node_modules", "vendor", ".git"}

\* filepath.Walk from the paths of todo, in lexical order, depth first
RECURSIVE walkSourceFiles(_, _)
walkSourceFiles(fsys, todo) ==
    IF todo = <<>> THEN <<>>
    ELSE LET p == Head(todo)
         IN IF IsFile(fsys, p)
            THEN (IF isSourceFile(p) THEN <<p>> ELSE <<>>)
                 \o walkSourceFiles(fsys, Tail(todo))
            ELSE IF ~IsDir(fsys, p) \/ Base(p) \in SkipDirs
            THEN walkSourceFiles(fsys, Tail(todo))
            ELSE walkSourceFiles(fsys,
                     [i \in 1..Len(ReadDir(fsys, p)) |-> p \o <<ReadDir(fsys, p)[i]>>]
                     \o Tail(todo))

\* filepath.Rel(base, target) for two clean relative paths
RECURSIVE Rel(_, _)
Rel(base, target) ==
    IF base = <<>> THEN target
    ELSE IF target # <<>> /\ Head(base) = Head(target) THEN Rel(Tail(base), Tail(target))
    ELSE [i \in 1..Len(base) |-> ".."] \o target

collectComponentFiles(fsys, path) ==
    LET found == walkSourceFiles(fsys, <<path>>)
    IN [i \in 1..Len(found) |-> Rel(rootPath, found[i])]

\* every path filepath.Walk hands to the callback
Visited(fsys, path) ==
    {path} \cup UNION {{SubSeq(f, 1, k) : k \in (Len(path) + 1)..Len(f)} :
                           f \in {q \in FilesOf(fsys) : IsPrefix(path, q)}}

hasTests(fsys, path) == \E p \in Visited(fsys, path) : isTestFile(p)

generateDescription(comp) == <<"A ", comp.Language, " ", comp.Type, " component">>

enrichComponent(fsys, comp) ==
    LET c == [comp EXCEPT !.Files = collectComponentFiles(fsys, comp.Path),
                          !.HasTests = hasTests(fsys, comp.Path),
                          !.Dependencies = <<>>]
    IN [c EXCEPT !.Description = generateDescription(c)]

\* a variant that runs every strategy and keeps all they find
ChooseStrategy_All(fsys) ==
    detectMonorepo(fsys) \o detectSingleComponent(fsys) \o detectByDirectory(fsys)

ChooseStrategy(fsys) ==
    LET mono == detectMonorepo(fsys)
        single == IF Len(mono) = 0 THEN mono \o detectSingleComponent(fsys) ELSE mono
    IN IF Len(single) = 0 THEN single \o detectByDirectory(fsys) ELSE single

DetectComponents(fsys) ==
    LET components == ChooseStrategy(fsys)
    IN [i \in 1..Len(components) |-> enrichComponent(fsys, components[i])]

(***************************************************************************)
(* The detector run once on any working tree made of these files.          *)
(***************************************************************************)
RootManifests ==
    {<<"go.mod">>, <<"setup.py">>, <<"pyproject.toml">>, <<"package.json">>,
     <<"Cargo.toml">>, <<"pom.xml">>, <<"build.gradle">>, <<"build.gradle.kts">>,
     <<"Gemfile">>, <<"app.csproj">>}
DetectPaths ==
    RootManifests \cup
    {<<"services", "api", "main.go">>, <<"apps", "api", "app.py">>,
     <<"cmd", "tool", "main.go">>, <<"main.go">>, <<"main.py">>}

NotDetected == [done |-> FALSE, err |-> FALSE, components |-> <<>>, rootPath |-> <<>>]

InitDetect ==
    /\ fs \in [DetectPaths -> {NoFile, File(<<>>)}]
    /\ now = 0
    /\ disk = NoCacheFile
    /\ mgr = [p \in Procs |-> NewManager(TRUE, 0)]
    /\ upd = [n \in ApiNames |-> NoCall]
    /\ ret = NoRet
    /\ det = NotDetected
    /\ run = [p \in Procs |-> IdleRun]
    /\ hist = NoHist
    /\ scan = NoScan
    /\ pool = NoPool

Detect ==
    /\ ~det.done
    /\ det' = [det EXCEPT !.done = TRUE, !.components = DetectComponents(fs)]
    /\ UNCHANGED <<fs, now, disk, mgr, upd, ret, run, hist, scan, pool>>

NextDetect == Detect

SpecDetect == InitDetect /\ [][NextDetect]_vars

(***************************************************************************)
(* The detector built by NewDetector on "." or on the directory repo of    *)
(* the working directory, run once on any tree of these files below it.    *)
(***************************************************************************)
RootPaths == {<<>>, <<"repo">>}
AtPaths ==
    {<<"go.mod">>, <<"setup.py">>, <<"main.go">>, <<"services", "api", "main.go">>,
     <<"apps", "api", "app.py">>, <<"cmd", "tool", "main.go">>}

InitDetectAt ==
    /\ \E root \in RootPaths :
          /\ det = [NotDetected EXCEPT !.rootPath = root]
          /\ fs \in [{root \o p : p \in AtPaths} -> {NoFile, File(<<>>)}]
    /\ now = 0
    /\ disk = NoCacheFile
    /\ mgr = [p \in Procs |-> NewManager(TRUE, 0)]
    /\ upd = [n \in ApiNames |-> NoCall]
    /\ ret = NoRet
    /\ run = [p \in Procs |-> IdleRun]
    /\ hist = NoHist
    /\ scan = NoScan
    /\ pool = NoPool

SpecDetectAt == InitDetectAt /\ [][NextDetect]_vars

(***************************************************************************)
(* The detector on "." run once on any tree of the files that decide a     *)
(* component's kind.                                                       *)
(***************************************************************************)
KindPaths ==
    {<<"Dockerfile">>, <<"go.mod">>, <<"main.go">>, <<"package.json">>,
     <<"Cargo.toml">>, <<"Gemfile">>, <<"config", "routes.rb">>,
     <<"services", "api", "Dockerfile">>, <<"services", "api", "package.json">>,
     <<"services", "api", "react.js">>, <<"services", "api", "main.go">>}

InitKinds ==
    /\ fs \in [KindPaths -> {NoFile, File(<<>>)}]
    /\ now = 0
    /\ disk = NoCacheFile
    /\ mgr = [p \in Procs |-> NewManager(TRUE, 0)]
    /\ upd = [n \in ApiNames |-> NoCall]
    /\ ret = NoRet
    /\ det = NotDetected
    /\ run = [p \in Procs |-> IdleRun]
    /\ hist = NoHist
    /\ scan = NoScan
    /\ pool = NoPool

SpecKinds == InitKinds /\ [][NextDetect]_vars

(***************************************************************************)
(* The detector on "." run once on any tree of these files, for what       *)
(* enrichComponent collects.                                               *)
(***************************************************************************)
EnrichPaths ==
    {<<"services", "api", "main.go">>, <<"services", "api", "main_test.go">>,
     <<"services", "api", "build", "gen.go">>,
     <<"services", "api", "vendor", "lib_test.go">>,
     <<"services", "api", "node_modules", "dep.js">>,
     <<"services", "api", "test", "data.txt">>,
     <<"services", "web", "main.go">>}

InitEnrich ==
    /\ fs \in [EnrichPaths -> {NoFile, File(<<>>)}]
    /\ now = 0
    /\ disk = NoCacheFile
    /\ mgr = [p \in Procs |-> NewManager(TRUE, 0)]
    /\ upd = [n \in ApiNames |-> NoCall]
    /\ ret = NoRet
    /\ det = NotDetected
    /\ run = [p \in Procs |-> IdleRun]
    /\ hist = NoHist
    /\ scan = NoScan
    /\ pool = NoPool

SpecEnrich == InitEnrich /\ [][NextDetect]_vars

(***************************************************************************)
(* Scanner (internal/analyzer/scanner.go).  The scanner is built on the    *)
(* root path "." (analyzer.go:21, orchestrator.go:39), so the paths Walk   *)
(* hands to the callback are already relative to the root.  An entry of    *)
(* the working tree that holds Denied is a directory that exists but       *)
(* cannot be read.                                                         *)
(***************************************************************************)
MaxScans == 2

Denied == [ok |-> FALSE, data |-> <<"EACCES">>]
IsDenied(fsys, p) == p \in DOMAIN fsys /\ fsys[p] = Denied

\* the names shouldExclude always excludes
alwaysExclude ==
    {".git", ".docbrown", "node_modules", "vendor", ".venv", "venv",
     "__pycache__", "dist", "build", "target", ".next", ".cache"}

\* strings.Contains(name, pattern) for the patterns of alwaysExclude
Contains(n, pattern) ==
    <<n, pattern>> \in
        {<<".git", ".git">>, <<".gitignore", ".git">>, <<"build", "build">>,
         <<"build.gradle", "build">>, <<"build.gradle.kts", "build">>,
         <<"node_modules", "node_modules">>, <<"vendor", "vendor">>}

\* filepath.Match(pattern, relPath): a pattern is its slash-separated parts,
\* a star never matches a separator, and the root's relative path is "."
MatchPath(pattern, relPath) ==
    LET parts == IF relPath = <<>> THEN <<".">> ELSE relPath
    IN /\ Len(pattern) = Len(parts)
       /\ \A i \in 1..Len(parts) : Match(pattern[i], parts[i])

shouldExclude(excludePatterns, path) ==
    \/ \E i \in 1..Len(path) : \E pattern \in alwaysExclude : Contains(path[i], pattern)
    \/ \E k \in 1..Len(excludePatterns) : MatchPath(excludePatterns[k], path)

\* the extensions of languageMap
detectLanguage(p) ==
    LET ext == Ext(Base(p))
    IN CASE ext = ".go" -> "go"
         [] ext = ".py" -> "python"
         [] ext \in {".js", ".jsx"} -> "javascript"
         [] ext \in {".ts", ".tsx"} -> "typescript"
         [] ext = ".java" -> "java"
         [] ext = ".rs" -> "rust"
         [] ext = ".rb" -> "ruby"
         [] ext = ".php" -> "php"
         [] ext = ".c" -> "c"
         [] ext = ".cpp" -> "cpp"
         [] ext = ".cs" -> "csharp"
         [] ext = ".kt" -> "kotlin"
         [] ext = ".swift" -> "swift"
         [] ext = ".sh" -> "shell"
         [] OTHER -> ""

FileInfo(fsys, p) ==
    [Path |-> p, Size |-> Len(fsys[p].data), Language |-> detectLanguage(p),
     IsTest |-> isTestFile(p)]

\* a directory as filepath.Walk sees it, and its sorted entries
IsWalkDir(fsys, p) == IsDir(fsys, p) \/ IsDenied(fsys, p)
readDirNames(fsys, d) ==
    LET below == {q \in DOMAIN fsys : IsPrefix(d, q) /\ (fsys[q].ok \/ fsys[q] = Denied)}
        names == {q[Len(d) + 1] : q \in below}
    IN SelectSeq(NameOrder, LAMBDA n : n \in names)

\* a variant of walkInto that enters an excluded directory
walkInto_Enter(fsys, excludePatterns, p) ==
    [i \in 1..Len(readDirNames(fsys, p)) |-> p \o <<readDirNames(fsys, p)[i]>>]

\* the entries Walk goes on to after the callback has seen directory p:
\* none when the callback answers SkipDir
walkInto(fsys, excludePatterns, p) ==
    IF shouldExclude(excludePatterns, p) THEN <<>>
    ELSE [i \in 1..Len(readDirNames(fsys, p)) |-> p \o <<readDirNames(fsys, p)[i]>>]

NoStructure == [err |-> FALSE, files |-> <<>>, Languages |-> EmptyMap, TotalFiles |-> 0]

\* filepath.Walk with Scan's callback, from the paths of todo on
RECURSIVE Walk(_, _, _, _)
Walk(fsys, excludePatterns, todo, acc) ==
    IF todo = <<>> THEN acc
    ELSE LET p == Head(todo)
         IN IF IsDenied(fsys, p)
            THEN [acc EXCEPT !.err = TRUE]
            ELSE IF IsWalkDir(fsys, p)
            THEN Walk(fsys, excludePatterns,
                      walkInto(fsys, excludePatterns, p) \o Tail(todo), acc)
            ELSE IF shouldExclude(excludePatterns, p)
            THEN Walk(fsys, excludePatterns, Tail(todo), acc)
            ELSE LET fileInfo == FileInfo(fsys, p)
                     language == fileInfo.Language
                     counted ==
                         IF language = "" THEN acc.Languages
                         ELSE Put(acc.Languages, language,
                                  IF language \in DOMAIN acc.Languages
                                  THEN acc.Languages[language] + 1 ELSE 1)
                 IN Walk(fsys, excludePatterns, Tail(todo),
                         [acc EXCEPT !.files = Append(@, fileInfo),
                                     !.Languages = counted,
                                     !.TotalFiles = @ + 1])

\* strings.TrimPrefix(b, a) when name a is a proper prefix of name b, else ""
NameRest(a, b) ==
    CASE <<a, b>> = <<".git", ".gitignore">> -> "ignore"
      [] <<a, b>> = <<"a", "api">> -> "pi"
      [] <<a, b>> = <<"a", "app.csproj">> -> "pp.csproj"
      [] <<a, b>> = <<"a", "app.py">> -> "pp.py"
      [] <<a, b>> = <<"a", "apps">> -> "pps"
      [] <<a, b>> = <<"b", "build">> -> "uild"
      [] <<a, b>> = <<"b", "build.gradle">> -> "uild.gradle"
      [] <<a, b>> = <<"b", "build.gradle.kts">> -> "uild.gradle.kts"
      [] <<a, b>> = <<"build", "build.gradle">> -> ".gradle"
      [] <<a, b>> = <<"build", "build.gradle.kts">> -> ".gradle.kts"
      [] <<a, b>> = <<"build.gradle", "build.gradle.kts">> -> ".kts"
      [] OTHER -> ""

\* parts[0] of strings.Split(strings.TrimPrefix(d, dir), "/") when the
\* string d has the string dir as a prefix and differs from it, else ""
FirstPart(d, dir) ==
    IF dir = <<>> THEN (IF d = <<>> THEN "" ELSE d[1])
    ELSE IF Len(d) >= Len(dir) /\ Dir(dir) = SubSeq(d, 1, Len(dir) - 1)
    THEN NameRest(dir[Len(dir)], d[Len(dir)])
    ELSE ""

\* the keys of the map dirs, and the base names grouped under one key
DirKeys(files) == {Dir(files[i].Path) : i \in 1..Len(files)}
FilesIn(files, dir) ==
    LET here == SelectSeq(files, LAMBDA f : Dir(f.Path) = dir)
    IN [i \in 1..Len(here) |-> Base(here[i].Path)]

\* the tree string is kept as the sequence of the pieces written to the
\* builder, the box-drawing indent and branch being spelled "|   " and "|-- "
Indent(n) == [i \in 1..n |-> "|   "]

RECURSIVE Flatten(_)
Flatten(ss) == IF ss = <<>> THEN <<>> ELSE Head(ss) \o Flatten(Tail(ss))

\* printDir: the lines of the files of dir, then, for the directories from
\* position i of the order in which the map dirs is ranged over, a line for
\* each one whose path string continues dir and what printDir gives for it
RECURSIVE printDir(_, _, _, _, _)
printDir(files, order, dir, indent, i) ==
    IF i = 0
    THEN LET names == FilesIn(files, dir)
         IN Flatten([k \in 1..Len(names) |->
                        Indent(indent) \o <<"|-- ", names[k], "\n">>])
            \o printDir(files, order, dir, indent, 1)
    ELSE IF i > Len(order) THEN <<>>
    ELSE LET d == order[i]
         IN (IF FirstPart(d, dir) # ""
             THEN Indent(indent) \o <<"|-- ", FirstPart(d, dir), "/\n">>
                  \o printDir(files, order, d, indent + 1, 0)
             ELSE <<>>)
            \o printDir(files, order, dir, indent, i + 1)

\* generateFileTree, the map dirs being ranged over in the given order
generateFileTree(files, order) == <<".\n">> \o printDir(files, order, <<>>, 0, 0)

\* the orders in which a range over a map with these keys can run
RangeOrders(keys) ==
    {o \in [1..Cardinality(keys) -> keys] :
        \A i, j \in 1..Cardinality(keys) : o[i] = o[j] => i = j}

\* Scanner.Scan: nil and an error when Walk returns one
Scan(fsys, excludePatterns, order) ==
    LET walked == Walk(fsys, excludePatterns, <<<<>>>>, NoStructure)
    IN IF walked.err
       THEN [NoStructure EXCEPT !.err = TRUE] @@ [FileTree |-> <<>>]
       ELSE walked @@ [FileTree |-> generateFileTree(walked.files, order)]

ScanOrders(fsys, excludePatterns) ==
    RangeOrders(DirKeys(Walk(fsys, excludePatterns, <<<<>>>>, NoStructure).files))

(***************************************************************************)
(* The scanner run up to MaxScans times on any working tree made of these  *)
(* files, an unreadable directory or an unreadable root among them, with   *)
(* any of these caller-supplied patterns.                                  *)
(***************************************************************************)
ScanPaths ==
    {<<"main.go">>, <<"README.md">>, <<"build.gradle">>, <<"build", "gen.go">>,
     <<"docs", "guide.md">>, <<"services", "api", "main.go">>, <<"src", "app.py">>,
     <<"vendor", "lib_test.go">>}
UnreadablePaths == {<<>>, <<"secret">>}
ScanPatterns == {<<>>, <<<<Lit("docs")>>>>, <<<<ExtPat(".md")>>>>,
                 <<<<Lit("docs")>>, <<ExtPat(".md")>>>>,
                 <<<<Lit("services"), AnyName>>>>}

InitScan ==
    /\ \E files \in [ScanPaths -> {NoFile, File(<<>>)}] :
       \E dirs \in [UnreadablePaths -> {NoFile, Denied}] :
           fs = files @@ dirs
    /\ now = 0
    /\ disk = NoCacheFile
    /\ mgr = [p \in Procs |-> NewManager(TRUE, 0)]
    /\ upd = [n \in ApiNames |-> NoCall]
    /\ ret = NoRet
    /\ det = NotDetected
    /\ run = [p \in Procs |-> IdleRun]
    /\ hist = NoHist
    /\ \E patterns \in ScanPatterns : scan = [NoScan EXCEPT !.excludePatterns = patterns]
    /\ pool = NoPool

ScanStep(order) ==
    /\ Len(scan.runs) < MaxScans
    /\ scan' = [scan EXCEPT !.runs = Append(@, Scan(fs, scan.excludePatterns, order))]
    /\ UNCHANGED <<fs, now, disk, mgr, upd, ret, det, run, hist, pool>>

NextScan == \E order \in ScanOrders(fs, scan.excludePatterns) : ScanStep(order)

SpecScan == InitScan /\ [][NextScan]_vars

(***************************************************************************)
(* MetadataExtractor.  A manifest is the sequence of its lines, a line the *)
(* sequence of its pieces: the runs of characters between white space,     *)
(* with every quote, colon, comma, slash, bracket of any shape, comparison *)
(* sign and equals sign a piece of its own.  A string taken from a line (a *)
(* name, a version) is the sequence of the pieces it spans.  The elements  *)
(* of a pom.xml or a .csproj stand each on one line.  A package.json is    *)
(* held as what json.Unmarshal makes of it: whether it parses, and the     *)
(* name and version pairs of its two dependency objects.                   *)
(***************************************************************************)
Dependency(name, version) == [Name |-> name, Version |-> version, Type |-> "external"]

\* os.ReadFile: the lines of the file, none when it cannot be read
ReadFile(fsys, p) ==
    IF p \in DOMAIN fsys /\ fsys[p].ok THEN [err |-> FALSE, content |-> fsys[p].data]
    ELSE [err |-> TRUE, content |-> <<>>]

Quotes == {"'", "\""}

\* strings.Split(line, sep): the parts around the pieces equal to sep
RECURSIVE Split(_, _)
Split(line, sep) ==
    IF \A i \in 1..Len(line) : line[i] # sep THEN <<line>>
    ELSE LET at == CHOOSE i \in 1..Len(line) :
                       line[i] = sep /\ \A j \in 1..(i - 1) : line[j] # sep
         IN <<SubSeq(line, 1, at - 1)>> \o Split(SubSeq(line, at + 1, Len(line)), sep)

\* strings.Trim(s, `"'`)
RECURSIVE Trim(_)
Trim(s) ==
    IF s # <<>> /\ Head(s) \in Quotes THEN Trim(Tail(s))
    ELSE IF s # <<>> /\ s[Len(s)] \in Quotes THEN Trim(SubSeq(s, 1, Len(s) - 1))
    ELSE s

\* regexp FindAllStringSubmatch for a pattern that is a fixed run of pieces
\* with capture groups: hole[k] says that piece k is a group, which takes
\* one piece that is no quote and no angle bracket; the matches in text
\* order, each as the pieces it spans
FindAll(text, pattern, hole) ==
    LET n == Len(pattern)
        fits(i) ==
            /\ i + n - 1 <= Len(text)
            /\ \A k \in 1..n :
                  IF hole[k]
                  THEN text[i + k - 1] \notin Quotes \cup {"<", ">"}
                  ELSE text[i + k - 1] = pattern[k]
        starts == SelectSeq([i \in 1..Len(text) |-> i], fits)
    IN [m \in 1..Len(starts) |->
           [k \in 1..n |-> text[starts[m] + k - 1]]]

RECURSIVE goRequires(_, _)
goRequires(lines, inRequire) ==
    IF lines = <<>> THEN <<>>
    ELSE LET line == Head(lines)
             requireLine == Len(line) >= 2 /\ line[1] = "require"
         IN IF requireLine /\ line[2] = "("
            THEN goRequires(Tail(lines), TRUE)
            ELSE IF inRequire /\ line = <<")">>
            THEN goRequires(Tail(lines), FALSE)
            ELSE IF requireLine \/ inRequire
            THEN LET parts == IF requireLine THEN Tail(line) ELSE line
                 IN (IF Len(parts) >= 2
                     THEN <<Dependency(<<parts[1]>>, <<parts[2]>>)>> ELSE <<>>)
                    \o goRequires(Tail(lines), inRequire)
            ELSE goRequires(Tail(lines), inRequire)

extractGoDependencies(fsys, path) ==
    LET file == ReadFile(fsys, path \o <<"go.mod">>)
    IN IF file.err THEN <<>> ELSE goRequires(file.content, FALSE)

\* the loop over the lines of a pyproject.toml or a Cargo.toml: a line
\* opens the dependencies section when it contains (anywhere), or else
\* begins with, the header of one of the named sections
RECURSIVE sectionDeps(_, _, _, _)
sectionDeps(lines, inDeps, sections, anywhere) ==
    IF lines = <<>> THEN <<>>
    ELSE LET line == Head(lines)
             opens == \E i \in 1..(Len(line) - 2) :
                          /\ anywhere \/ i = 1
                          /\ line[i] = "[" /\ line[i + 1] \in sections /\ line[i + 2] = "]"
         IN IF opens
            THEN sectionDeps(Tail(lines), TRUE, sections, anywhere)
            ELSE IF inDeps /\ line # <<>> /\ Head(line) = "["
            THEN sectionDeps(Tail(lines), FALSE, sections, anywhere)
            ELSE IF inDeps /\ \E i \in 1..Len(line) : line[i] = "="
            THEN LET parts == Split(line, "=")
                 IN <<Dependency(parts[1], Trim(parts[2]))>>
                    \o sectionDeps(Tail(lines), inDeps, sections, anywhere)
            ELSE sectionDeps(Tail(lines), inDeps, sections, anywhere)

\* the first piece is the name when it is made of letters, digits, "_" and
\* "-" only; the comparison signs that follow it are dropped
requirement(line) ==
    LET signs == {"=", ">", "<", "~", "!"}
        rest == CHOOSE k \in 2..(Len(line) + 1) :
                    /\ \A j \in 2..(k - 1) : line[j] \in signs
                    /\ k <= Len(line) => line[k] \notin signs
    IN IF line = <<>> \/ Head(line) = "#" THEN <<>>
       ELSE IF Head(line) \in {"[", "]", "\"", "'", ":", ",", "/"} \cup signs THEN <<>>
       ELSE <<Dependency(<<line[1]>>, SubSeq(line, rest, Len(line)))>>

extractPythonDependencies(fsys, path) ==
    LET req == ReadFile(fsys, path \o <<"requirements.txt">>)
        pyproject == ReadFile(fsys, path \o <<"pyproject.toml">>)
    IN IF ~req.err
       THEN Flatten([i \in 1..Len(req.content) |-> requirement(req.content[i])])
       ELSE IF pyproject.err THEN <<>>
       ELSE sectionDeps(pyproject.content, FALSE,
                        {"tool.poetry.dependencies", "project.dependencies"}, TRUE)

\* the map pkg.Dependencies being ranged over in the given order of its keys
extractNodeDependencies(fsys, path, order) ==
    LET file == ReadFile(fsys, path \o <<"package.json">>)
        pkg == Head(file.content)
        version(name) ==
            LET at == CHOOSE i \in 1..Len(pkg.dependencies) :
                          pkg.dependencies[i][1] = name
            IN pkg.dependencies[at][2]
        keys == SelectSeq(order, LAMBDA name :
                    \E i \in 1..Len(pkg.dependencies) : pkg.dependencies[i][1] = name)
    IN IF file.err THEN <<>>
       ELSE IF file.content = <<>> \/ ~pkg.valid THEN <<>>
       ELSE [i \in 1..Len(keys) |-> Dependency(<<keys[i]>>, <<version(keys[i])>>)]

extractRustDependencies(fsys, path) ==
    LET file == ReadFile(fsys, path \o <<"Cargo.toml">>)
    IN IF file.err THEN <<>>
       ELSE sectionDeps(file.content, FALSE, {"dependencies"}, FALSE)

\* a line of build.gradle that contains "implementation" or "compile",
\* against ['"]([^:]+):([^:]+):([^'"]+)['"]
gradleLine(line) ==
    LET fits(i) ==
            /\ i + 6 <= Len(line)
            /\ line[i] \in Quotes /\ line[i + 6] \in Quotes
            /\ line[i + 2] = ":" /\ line[i + 4] = ":"
            /\ \A k \in {1, 3, 5} : line[i + k] \notin Quotes \cup {":"}
        at == CHOOSE i \in 1..Len(line) : fits(i) /\ \A j \in 1..(i - 1) : ~fits(j)
    IN IF (\E i \in 1..Len(line) : line[i] \in {"implementation", "compileOnly"})
          /\ \E i \in 1..Len(line) : fits(i)
       THEN <<Dependency(<<line[at + 1], ":", line[at + 3]>>, <<line[at + 5]>>)>>
       ELSE <<>>

\* extractJavaDependencies, had it passed over the first match of each
\* pattern (the coordinates of the project itself)
extractJavaDependencies_SkipFirst(fsys, path) ==
    LET pom == ReadFile(fsys, path \o <<"pom.xml">>)
        gradle == ReadFile(fsys, path \o <<"build.gradle">>)
        text == Flatten(pom.content)
        element(tag) ==
            LET all == FindAll(text, <<"<", tag, ">", "", "<", "/", tag, ">">>,
                               [k \in 1..8 |-> k = 4])
            IN IF all = <<>> THEN <<>> ELSE Tail(all)
        groups == element("groupId")
        artifacts == element("artifactId")
        versions == element("version")
        n == IF Len(groups) < Len(artifacts) THEN Len(groups) ELSE Len(artifacts)
    IN IF ~pom.err
       THEN [i \in 1..n |->
                Dependency(<<groups[i][4], ":", artifacts[i][4]>>,
                           IF i <= Len(versions) THEN <<versions[i][4]>> ELSE <<>>)]
       ELSE IF gradle.err THEN <<>>
       ELSE Flatten([i \in 1..Len(gradle.content) |-> gradleLine(gradle.content[i])])

extractJavaDependencies(fsys, path) ==
    LET pom == ReadFile(fsys, path \o <<"pom.xml">>)
        gradle == ReadFile(fsys, path \o <<"build.gradle">>)
        text == Flatten(pom.content)
        element(tag) ==
            FindAll(text, <<"<", tag, ">", "", "<", "/", tag, ">">>,
                    [k \in 1..8 |-> k = 4])
        groups == element("groupId")
        artifacts == element("artifactId")
        versions == element("version")
        n == IF Len(groups) < Len(artifacts) THEN Len(groups) ELSE Len(artifacts)
    IN IF ~pom.err
       THEN [i \in 1..n |->
                Dependency(<<groups[i][4], ":", artifacts[i][4]>>,
                           IF i <= Len(versions) THEN <<versions[i][4]>> ELSE <<>>)]
       ELSE IF gradle.err THEN <<>>
       ELSE Flatten([i \in 1..Len(gradle.content) |-> gradleLine(gradle.content[i])])

\* a line of a Gemfile against
\* gem\s+['"]([^'"]+)['"]\s*,?\s*['"]?([^'"]*)['"]?
gemLine(line) ==
    LET afterName == SubSeq(line, 5, Len(line))
        afterComma == IF afterName # <<>> /\ Head(afterName) = ","
                      THEN Tail(afterName) ELSE afterName
        afterQuote == IF afterComma # <<>> /\ Head(afterComma) \in Quotes
                      THEN Tail(afterComma) ELSE afterComma
    IN IF Len(line) >= 4 /\ line[1] = "gem" /\ line[2] \in Quotes
          /\ line[3] \notin Quotes /\ line[4] \in Quotes
       THEN <<Dependency(<<line[3]>>,
                         IF afterQuote # <<>> /\ Head(afterQuote) \notin Quotes
                         THEN <<Head(afterQuote)>> ELSE <<>>)>>
       ELSE <<>>

extractRubyDependencies(fsys, path) ==
    LET file == ReadFile(fsys, path \o <<"Gemfile">>)
    IN IF file.err THEN <<>>
       ELSE Flatten([i \in 1..Len(file.content) |-> gemLine(file.content[i])])

extractCSharpDependencies(fsys, path) ==
    LET files == SelectSeq(ReadDir(fsys, path),
                           LAMBDA n : IsFile(fsys, path \o <<n>>) /\ Ext(n) = ".csproj")
        references(n) ==
            FindAll(Flatten(fsys[path \o <<n>>].data),
                    <<"<", "PackageReference", "Include", "=", "\"", "", "\"",
                      "Version", "=", "\"", "", "\"">>,
                    [k \in 1..12 |-> k \in {6, 11}])
    IN IF ~IsDir(fsys, path) THEN <<>>
       ELSE Flatten([i \in 1..Len(files) |->
                        [m \in 1..Len(references(files[i])) |->
                            Dependency(<<references(files[i])[m][6]>>,
                                       <<references(files[i])[m][11]>>)]])

ExtractDependencies(fsys, comp, order) ==
    CASE comp.Language = "go" -> extractGoDependencies(fsys, comp.Path)
      [] comp.Language = "python" -> extractPythonDependencies(fsys, comp.Path)
      [] comp.Language \in {"javascript", "typescript"} ->
             extractNodeDependencies(fsys, comp.Path, order)
      [] comp.Language = "rust" -> extractRustDependencies(fsys, comp.Path)
      [] comp.Language = "java" -> extractJavaDependencies(fsys, comp.Path)
      [] comp.Language = "ruby" -> extractRubyDependencies(fsys, comp.Path)
      [] comp.Language = "csharp" -> extractCSharpDependencies(fsys, comp.Path)
      [] OTHER -> <<>>

\* Analyze, step 3: the dependencies of each detected component
extractAll(fsys, components, order) ==
    [i \in 1..Len(components) |->
        [components[i] EXCEPT
            !.Dependencies = ExtractDependencies(fsys, components[i], order)]]

\* Analyzer.Analyze on what Scan has returned: detect, then extract
Analyze(fsys, structure, order) ==
    IF structure.err THEN [err |-> TRUE, components |-> <<>>]
    ELSE [err |-> FALSE, components |-> extractAll(fsys, DetectComponents(fsys), order)]

(***************************************************************************)
(* The analyzer run once on a working tree that is either one component at *)
(* the root with one manifest of at most MaxLines lines, or services/a     *)
(* with a go.mod of fewer single-line requires and services/b with a       *)
(* package.json.                                                           *)
(***************************************************************************)
MaxLines == 4

Quoted(piece) == <<"\"", piece, "\"">>
Element(tag, piece) == <<"<", tag, ">", piece, "<", "/", tag, ">">>
Coordinates(i) ==
    Element("groupId", <<"g0", "g1", "g2">>[i + 1])
    \o Element("artifactId", <<"a0", "a1", "a2">>[i + 1])
Version(i) == Element("version", <<"v0", "v1", "v2">>[i + 1])

SingleRequires ==
    {<<"require", "n1", "v1">>, <<"require", "n2", "v2">>, <<"require", "n3", "v3">>}

\* up to n single-line requires, each dependency required once
Requires(n) ==
    {lines \in SeqsUpTo(SingleRequires, n) :
        \A i, j \in 1..Len(lines) : lines[i] = lines[j] => i = j}

\* the lines a manifest of the working tree is made of, by file name
LinesOf(file) ==
    CASE file = "go.mod" ->
             {<<"module", "m">>, <<"require", "(">>, <<")">>,
              <<"n1", "v1">>, <<"n2", "v2">>} \cup SingleRequires
      [] file = "requirements.txt" ->
             {<<>>, <<"#", "pinned">>, <<"n3">>,
              <<"n1", "=", "=", "v1">>, <<"n2", ">", "=", "v2">>,
              <<"n1", "[", "extra", "]", "=", "=", "v1">>, <<"-r", "other.txt">>}
      [] file = "pyproject.toml" ->
             {<<"[", "project", "]">>, <<"[", "tool.poetry.dependencies", "]">>,
              <<"name", "=">> \o Quoted("demo"), <<"n1", "=">> \o Quoted("v1"),
              <<"dependencies", "=", "[", "\"", "n1", "=", "=", "v1", "\"", "]">>,
              <<"=", "=">>}
      [] file = "Cargo.toml" ->
             {<<"[", "package", "]">>, <<"[", "dependencies", "]">>,
              <<"name", "=">> \o Quoted("demo"), <<"n1", "=">> \o Quoted("v1"),
              <<"n2", "=", "{", "version", "=">> \o Quoted("v2") \o <<"}">>,
              <<"=", "=">>}
      [] file = "pom.xml" ->
             {<<"<", "project", ">">>, <<"<", "/", "project", ">">>,
              Coordinates(0) \o Version(0),
              <<"<", "parent", ">">> \o Element("groupId", "g0")
                  \o <<"<", "/", "parent", ">">>,
              <<"<", "dependency", ">">> \o Coordinates(1) \o Version(1)
                  \o <<"<", "/", "dependency", ">">>,
              <<"<", "dependency", ">">> \o Coordinates(2)
                  \o <<"<", "/", "dependency", ">">>,
              <<"<", "dependency", ">">> \o Coordinates(2) \o Version(2)}
      [] file \in {"build.gradle", "build.gradle.kts"} ->
             {<<"implementation", "'", "g1", ":", "a1", ":", "v1", "'">>,
              <<"implementation", "(", "\"", "g1", ":", "a1", ":", "v1", "\"", ")">>,
              <<"api", "'", "g2", ":", "a2", ":", "v2", "'">>,
              <<"testImplementation", "'", "g2", ":", "a2", ":", "v2", "'">>}
      [] file = "Gemfile" ->
             {<<"source", "'", "https://rubygems.org", "'">>,
              <<"gem", "'", "n1", "'", ",", "'", "v1", "'">>,
              <<"gem", "'", "n2", "'">>,
              <<"gem", "'", "n2", "'", ",", "require: false">>}
      [] file = "app.csproj" ->
             {<<"<", "Project", ">">>,
              <<"<", "PackageReference", "Include", "=">> \o Quoted("n1")
                  \o <<"Version", "=">> \o Quoted("v1") \o <<"/", ">">>,
              <<"<", "PackageReference", "Include", "=">> \o Quoted("n2") \o <<">">>
                  \o Element("Version", "v2")
                  \o <<"<", "/", "PackageReference", ">">>}

\* what json.Unmarshal can make of a package.json
Packages ==
    {[valid |-> v, dependencies |-> d, devDependencies |-> e] :
        v \in BOOLEAN,
        d \in {<<>>, <<<<"n1", "v1">>>>, <<<<"n1", "v1">>, <<"n2", "v2">>>>,
               <<<<"n2", "v2">>, <<"n1", "v1">>>>},
        e \in {<<>>, <<<<"n3", "v3">>>>}}

Manifests(file, n) ==
    IF file = "package.json" THEN {File(<<pkg>>) : pkg \in Packages}
    ELSE {File(lines) : lines \in SeqsUpTo(LinesOf(file), n)}

ManifestNames ==
    {"go.mod", "requirements.txt", "pyproject.toml", "package.json", "Cargo.toml",
     "pom.xml", "build.gradle", "build.gradle.kts", "Gemfile", "app.csproj"}
ServiceFiles ==
    {<<"services", "a", "Dockerfile">>, <<"services", "a", "main.go">>,
     <<"services", "b", "Dockerfile">>, <<"services", "b", "react.js">>}
AnalyzePaths ==
    {<<m>> : m \in ManifestNames} \cup {<<"setup.py">>}
    \cup {<<"services", "a", "go.mod">>, <<"services", "b", "package.json">>}
    \cup ServiceFiles

\* a tree with nothing but the given files
Tree(files) == [p \in AnalyzePaths |-> IF p \in DOMAIN files THEN files[p] ELSE NoFile]

InitAnalyze ==
    /\ \/ \E m \in ManifestNames : \E content \in Manifests(m, MaxLines) :
             fs = Tree(IF m = "requirements.txt"
                       THEN (<<m>> :> content) @@ (<<"setup.py">> :> File(<<>>))
                       ELSE (<<m>> :> content))
       \/ \E gomod \in {File(lines) : lines \in Requires(MaxLines - 1)} \cup {NoFile} :
          \E package \in Manifests("package.json", 1) \cup {NoFile} :
          \E others \in [ServiceFiles -> {NoFile, File(<<>>)}] :
             fs = Tree((<<"services", "a", "go.mod">> :> gomod)
                       @@ (<<"services", "b", "package.json">> :> package) @@ others)
    /\ now = 0
    /\ disk = NoCacheFile
    /\ mgr = [p \in Procs |-> NewManager(TRUE, 0)]
    /\ upd = [n \in ApiNames |-> NoCall]
    /\ ret = NoRet
    /\ det = NotDetected
    /\ run = [p \in Procs |-> IdleRun]
    /\ hist = NoHist
    /\ scan = NoScan
    /\ pool = NoPool

AnalyzeRepo(treeOrder, order) ==
    /\ Len(scan.runs) < MaxScans
    /\ scan' = [scan EXCEPT !.runs = Append(@, Scan(fs, scan.excludePatterns, treeOrder))]
    /\ \E analyzed \in {Analyze(fs, scan'.runs[Len(scan'.runs)], order)} :
           det' = [det EXCEPT !.done = TRUE, !.err = analyzed.err,
                              !.components = analyzed.components]
    /\ UNCHANGED <<fs, now, disk, mgr, upd, ret, run, hist, pool>>

NextAnalyze ==
    \E treeOrder \in ScanOrders(fs, scan.excludePatterns) :
    \E order \in RangeOrders({"n1", "n2"}) :
        AnalyzeRepo(treeOrder, order)

SpecAnalyze == InitAnalyze /\ [][NextAnalyze]_vars

(***************************************************************************)
(* The LLM pool.  One goroutine calls GenerateParallel, which starts one   *)
(* goroutine per request; one more goroutine calls Pool.Analyze itself, as *)
(* the orchestrator does.  All share one context, which may be cancelled.  *)
(* The loop that starts the goroutines is one step: a goroutine that has   *)
(* not yet been started cannot be told from one that has not yet been      *)
(* scheduled.  The provider's call ends well or badly; on an error it      *)
(* returns the empty text.                                                 *)
(***************************************************************************)
\* p.provider.Generate / p.provider.Analyze, once it returns
Provider(request, ok) ==
    IF ok THEN [out |-> <<"doc", request>>, err |-> ""]
    ELSE [out |-> <<>>, err |-> "failed"]

NewPool(limit) ==
    [NoPool EXCEPT !.limit = limit,
                   !.maxConcurrent = IF limit <= 0 THEN 5 ELSE limit]

\* the request a goroutine passes to the provider
RequestOf(g) == IF g = Direct THEN <<"request", 0>> ELSE pool.requests[g]

\* a semaphore that never fills
CanSend_Unbounded(p) == TRUE

\* Execute, the select: the send on the semaphore can proceed
CanSend(p) == p.semaphore < p.maxConcurrent

InitPool ==
    /\ fs = [p \in {} |-> NoFile]
    /\ now = 0
    /\ disk = NoCacheFile
    /\ mgr = [p \in Procs |-> NewManager(TRUE, 0)]
    /\ upd = [n \in ApiNames |-> NoCall]
    /\ ret = NoRet
    /\ det = NotDetected
    /\ run = [p \in Procs |-> IdleRun]
    /\ hist = NoHist
    /\ scan = NoScan
    /\ \E limit \in Limits : pool = NewPool(limit)

\* GenerateParallel up to wg.Wait(): the two slices, and one goroutine per
\* request, each counted in the wait group before it is started
GenerateParallel(n) ==
    /\ pool.gp = "idle"
    /\ pool' = [pool EXCEPT
                   !.gp = "wait",
                   !.requests = SubSeq(Requests, 1, n),
                   !.results = [i \in 1..n |-> <<>>],
                   !.errors = [i \in 1..n |-> ""],
                   !.wg = n,
                   !.call = [g \in Goroutines |->
                                IF g \in 1..n THEN [@[g] EXCEPT !.pc = "select"] ELSE @[g]]]
    /\ UNCHANGED <<fs, now, disk, mgr, upd, ret, det, run, hist, scan>>

\* another goroutine calls Pool.Analyze
CallAnalyze ==
    /\ pool.call[Direct].pc = "none"
    /\ pool' = [pool EXCEPT !.call[Direct].pc = "select"]
    /\ UNCHANGED <<fs, now, disk, mgr, upd, ret, det, run, hist, scan>>

\* the context is cancelled
Cancel ==
    /\ ~pool.ctxDone
    /\ pool' = [pool EXCEPT !.ctxDone = TRUE]
    /\ UNCHANGED <<fs, now, disk, mgr, upd, ret, det, run, hist, scan>>

\* Execute, case p.semaphore <- struct{}{}: the slot is taken and fn starts
ExecuteSend(g) ==
    /\ pool.call[g].pc = "select"
    /\ CanSend(pool)
    /\ pool' = [pool EXCEPT !.semaphore = @ + 1,
                            !.call[g].pc = "fn",
                            !.call[g].ran = @ + 1]
    /\ UNCHANGED <<fs, now, disk, mgr, upd, ret, det, run, hist, scan>>

\* Execute, case <-ctx.Done(): the context's error, fn not run
ExecuteCtxDone(g) ==
    /\ pool.call[g].pc = "select"
    /\ pool.ctxDone
    /\ pool' = [pool EXCEPT !.call[g].pc = "returned", !.call[g].err = "ctx"]
    /\ UNCHANGED <<fs, now, disk, mgr, upd, ret, det, run, hist, scan>>

\* ExecuteReturn, had the slot been freed after a successful fn only
ExecuteReturn_KeepOnError(g, ok) ==
    /\ pool.call[g].pc = "fn"
    /\ pool' = [pool EXCEPT !.semaphore = IF ok THEN @ - 1 ELSE @,
                            !.call[g].pc = "returned",
                            !.call[g].out = Provider(RequestOf(g), ok).out,
                            !.call[g].err = Provider(RequestOf(g), ok).err]
    /\ UNCHANGED <<fs, now, disk, mgr, upd, ret, det, run, hist, scan>>

\* fn returns, the deferred receive frees the slot, Generate or Analyze
\* returns what the provider returned
ExecuteReturn(g, ok) ==
    /\ pool.call[g].pc = "fn"
    /\ pool' = [pool EXCEPT !.semaphore = @ - 1,
                            !.call[g].pc = "returned",
                            !.call[g].out = Provider(RequestOf(g), ok).out,
                            !.call[g].err = Provider(RequestOf(g), ok).err]
    /\ UNCHANGED <<fs, now, disk, mgr, upd, ret, det, run, hist, scan>>

\* the goroutine of a request stores its result and its error, wg.Done()
GoroutineDone(g) ==
    /\ g \in Workers
    /\ pool.call[g].pc = "returned"
    /\ pool' = [pool EXCEPT !.results[g] = pool.call[g].out,
                            !.errors[g] = pool.call[g].err,
                            !.wg = @ - 1,
                            !.call[g].pc = "done"]
    /\ UNCHANGED <<fs, now, disk, mgr, upd, ret, det, run, hist, scan>>

\* the index of the last error, or -1
FirstError_Last(errors) ==
    IF \A i \in 1..Len(errors) : errors[i] = "" THEN -1
    ELSE (CHOOSE i \in 1..Len(errors) :
              errors[i] # "" /\ \A j \in (i + 1)..Len(errors) : errors[j] = "") - 1

\* the index (as the code counts, from 0) of the first error, or -1
FirstError(errors) ==
    IF \A i \in 1..Len(errors) : errors[i] = "" THEN -1
    ELSE (CHOOSE i \in 1..Len(errors) :
              errors[i] # "" /\ \A j \in 1..(i - 1) : errors[j] = "") - 1

\* GenerateParallel from wg.Wait() on: the results, and the first error
GenerateParallelReturn ==
    /\ pool.gp = "wait"
    /\ pool.wg = 0
    /\ pool' = [pool EXCEPT !.gp = "returned",
                            !.ret = [results |-> pool.results,
                                     failed |-> FirstError(pool.errors)]]
    /\ UNCHANGED <<fs, now, disk, mgr, upd, ret, det, run, hist, scan>>

NextPool ==
    \/ \E n \in 0..MaxRequests : GenerateParallel(n)
    \/ CallAnalyze
    \/ Cancel
    \/ \E g \in Goroutines : ExecuteSend(g)
    \/ \E g \in Goroutines : ExecuteCtxDone(g)
    \/ \E g \in Goroutines : \E ok \in BOOLEAN : ExecuteReturn(g, ok)
    \/ \E g \in Workers : GoroutineDone(g)
    \/ GenerateParallelReturn

SpecPool == InitPool /\ [][NextPool]_vars

\* a goroutine that can run does run, and every call of the provider returns
FairPool ==
    /\ \A g \in Goroutines : WF_vars(ExecuteSend(g) \/ ExecuteCtxDone(g))
    /\ \A g \in Goroutines : WF_vars(\E ok \in BOOLEAN : ExecuteReturn(g, ok))
    /\ \A g \in Workers : WF_vars(GoroutineDone(g))
    /\ WF_vars(GenerateParallelReturn)

SpecPoolFair == SpecPool /\ FairPool

(***************************************************************************)
(* The cache API driven directly: one manager (process 1), any sequence of *)
(* Update and IsStale calls, while files change and time passes.           *)
(***************************************************************************)
CachePaths == {<<"x">>, <<"y">>}
\* the byte a file may hold spells a path, so content can be mistaken for one
CacheTokens == {"y"}
CacheContents == {NoFile} \cup {File(b) : b \in SeqsUpTo(CacheTokens, MaxContentLen)}
CacheFileLists == {<<>>} \cup {<<p>> : p \in CachePaths}
                  \cup {pq \in CachePaths \X CachePaths : pq[1] # pq[2]}
InitCache ==
    /\ fs \in [CachePaths -> CacheContents]
    /\ now = 0
    /\ disk = NoCacheFile
    /\ \E e \in BOOLEAN, ttl \in 0..MaxTTL :
          mgr = [p \in Procs |-> NewManager(e, ttl)]
    /\ upd = [n \in ApiNames |-> NoCall]
    /\ ret = NoRet
    /\ det = NotDetected
    /\ run = [p \in Procs |-> IdleRun]
    /\ hist = NoHist
    /\ scan = NoScan
    /\ pool = NoPool

ApiUpdate(name, files) ==
    /\ mgr' = [mgr EXCEPT ![1] = Update(@, fs, now, name, files)]
    /\ upd' = [upd EXCEPT ![name] =
                   [called |-> TRUE, files |-> files,
                    dataAt |-> DataOf(fs, files), at |-> now]]
    /\ ret' = [op |-> "Update", name |-> name, files |-> files,
               stale |-> FALSE, why |-> "",
               had |-> name \in DOMAIN mgr[1].cache.Components]
    /\ UNCHANGED <<fs, now, disk, det, run, hist, scan, pool>>

ApiIsStale(name, files) ==
    /\ ret' = [op |-> "IsStale", name |-> name, files |-> files,
               stale |-> IsStale(mgr[1], fs, now, name, files),
               why |-> StaleWhy(mgr[1], fs, now, name, files),
               had |-> FALSE]
    /\ UNCHANGED <<fs, now, disk, mgr, upd, det, run, hist, scan, pool>>

WriteFile(p, c) ==
    /\ fs[p] # c
    /\ fs' = [fs EXCEPT ![p] = c]
    /\ ret' = NoRet
    /\ UNCHANGED <<now, disk, mgr, upd, det, run, hist, scan, pool>>

Tick ==
    /\ now < MaxTime
    /\ now' = now + 1
    /\ ret' = NoRet
    /\ UNCHANGED <<fs, disk, mgr, upd, det, run, hist, scan, pool>>

NextCache ==
    \/ \E n \in ApiNames, fl \in CacheFileLists : ApiUpdate(n, fl)
    \/ \E n \in ApiNames, fl \in CacheFileLists : ApiIsStale(n, fl)
    \/ \E p \in CachePaths, c \in CacheContents : WriteFile(p, c)
    \/ Tick

SpecCache == InitCache /\ [][NextCache]_vars

(***************************************************************************)
(* The same calls for two components that share one file.                  *)
(***************************************************************************)
FramePaths == {<<"x">>}
FrameContents == {NoFile, File(<<>>), File(<<"y">>)}
FrameFileLists == {<<>>, <<<<"x">>>>}
InitFrame ==
    /\ fs \in [FramePaths -> FrameContents]
    /\ now = 0
    /\ disk = NoCacheFile
    /\ \E e \in BOOLEAN, ttl \in 0..MaxTTL :
          mgr = [p \in Procs |-> NewManager(e, ttl)]
    /\ upd = [n \in Names |-> NoCall]
    /\ ret = NoRet
    /\ det = NotDetected
    /\ run = [p \in Procs |-> IdleRun]
    /\ hist = NoHist
    /\ scan = NoScan
    /\ pool = NoPool

NextFrame ==
    \/ \E n \in Names, fl \in FrameFileLists : ApiUpdate(n, fl)
    \/ \E n \in Names, fl \in FrameFileLists : ApiIsStale(n, fl)
    \/ \E p \in FramePaths, c \in FrameContents : WriteFile(p, c)
    \/ Tick

SpecFrame == InitFrame /\ [][NextFrame]_vars

(***************************************************************************)
(* The commands: `generate` (Orchestrator.ExecuteGenerate) and `cache      *)
(* clear` (runCacheClear), each in a process of its own with the manager   *)
(* it builds from the configuration, against one working tree and one      *)
(* cache file.  Reading and writing the cache file are assumed not to      *)
(* fail, except for the removal in Clear.                                  *)
(***************************************************************************)
RunPaths ==
    {<<"services", "api", "main.go">>, <<"services", "web", "main.go">>,
     <<"apps", "api", "app.py">>}
RunContents == {NoFile, File(<<"1">>)}

Active(r) == r.pc \notin {"idle", "done"}
Other(p) == CHOOSE q \in Procs : q # p

\* getComponentsToGenerate
getComponentsToGenerate(m, fsys, t, components) ==
    SelectSeq(components, LAMBDA c : IsStale(m, fsys, t, c.Name, c.Files))

\* ExecuteGenerate step 8: Update for every regenerated component, in order
RECURSIVE UpdateAll(_, _, _, _)
UpdateAll(m, fsys, t, components) ==
    IF components = <<>> THEN m
    ELSE UpdateAll(Update(m, fsys, t, Head(components).Name, Head(components).Files),
                   fsys, t, Tail(components))

\* generateWithLLM: the entry for one component, by what the two calls did
Enriched(comp, outcome) ==
    CASE outcome = "analyze failed" ->
            [Component |-> comp, Overview |-> <<"Documentation for ", comp.Name>>,
             DetailedDocs |-> <<>>]
      [] outcome = "generate failed" ->
            [Component |-> comp, Overview |-> <<"overview">>,
             DetailedDocs |-> <<"## ", comp.Name, "\n\n", "overview">>]
      [] outcome = "ok" ->
            [Component |-> comp, Overview |-> <<"overview">>,
             DetailedDocs |-> <<"docs">>]
LLMOutcomes == {"ok", "analyze failed", "generate failed"}
CallsOf(outcome) == IF outcome = "analyze failed" THEN 1 ELSE 2

RECURSIVE SumCalls(_)
SumCalls(outcomes) ==
    IF outcomes = <<>> THEN 0 ELSE CallsOf(Head(outcomes)) + SumCalls(Tail(outcomes))

Finish(r, result) ==
    [r EXCEPT !.pc = "done", !.result = result, !.components = <<>>,
              !.toGen = <<>>, !.enriched = <<>>]

InitRuns ==
    /\ fs \in [RunPaths -> RunContents]
    /\ now = 0
    /\ disk = NoCacheFile
    /\ \E ttl \in 0..MaxTTL : mgr = [p \in Procs |-> NewManager(TRUE, ttl)]
    /\ upd = [n \in ApiNames |-> NoCall]
    /\ ret = NoRet
    /\ det = NotDetected
    /\ run = [p \in Procs |-> IdleRun]
    /\ hist = NoHist
    /\ scan = NoScan
    /\ pool = NoPool

\* the command starts: NewOrchestrator / runCacheClear build the manager
Start(p, cmd, enabled) ==
    /\ ~Active(run[p])
    /\ p = 1 \/ run[1].pc # "idle"      \* processes are numbered as they start
    /\ hist.started < MaxRuns
    /\ LET alone == ~Active(run[Other(p)])
       IN run' = [q \in Procs |->
                    IF q = p
                    THEN [IdleRun EXCEPT !.pc = IF cmd = "generate" THEN "analyze" ELSE "clear",
                                         !.cmd = cmd, !.alone = alone,
                                         !.afterBase = alone /\ hist.base]
                    ELSE [run[q] EXCEPT !.alone = FALSE]]
    /\ mgr' = [mgr EXCEPT ![p] = NewManager(enabled, mgr[p].ttl)]
    /\ hist' = [hist EXCEPT !.started = @ + 1,
                            !.lastSaver = IF @ = p THEN 0 ELSE @]
    /\ UNCHANGED <<fs, now, disk, upd, ret, det, scan, pool>>

\* step 1: ExecuteAnalyze
AnalyzeStep(p) ==
    /\ run[p].pc = "analyze"
    /\ run' = [run EXCEPT ![p].pc = "load", ![p].components = DetectComponents(fs)]
    /\ UNCHANGED <<fs, now, disk, mgr, upd, ret, det, hist, scan, pool>>

\* step 2: cacheManager.Load
LoadStep(p) ==
    /\ run[p].pc = "load"
    /\ mgr' = [mgr EXCEPT ![p] = Load(@, disk)]
    /\ run' = [run EXCEPT ![p].pc = "select"]
    /\ UNCHANGED <<fs, now, disk, upd, ret, det, hist, scan, pool>>

\* step 3: getComponentsToGenerate, and the return when nothing is stale
SelectStep(p) ==
    /\ run[p].pc = "select"
    /\ LET toGen == getComponentsToGenerate(mgr[p], fs, now, run[p].components)
           fresh == \A n \in DOMAIN mgr[p].cache.Components :
                        ~Expired(mgr[p], mgr[p].cache.Components[n], now)
       IN run' = [run EXCEPT ![p] =
                     IF Len(toGen) = 0
                     THEN [Finish(@, "up to date") EXCEPT !.fresh = fresh]
                     ELSE [@ EXCEPT !.pc = "template", !.toGen = toGen,
                                    !.fresh = fresh]]
    /\ UNCHANGED <<fs, now, disk, mgr, upd, ret, det, hist, scan, pool>>

\* step 4: templateEng.LoadTemplate
TemplateStep(p, ok) ==
    /\ run[p].pc = "template"
    /\ run' = [run EXCEPT ![p] =
                  IF ok THEN [@ EXCEPT !.pc = "llm"]
                  ELSE Finish(@, "failed to load template")]
    /\ UNCHANGED <<fs, now, disk, mgr, upd, ret, det, hist, scan, pool>>

\* step 5: generateWithLLM
LLMStep(p, outcomes) ==
    /\ run[p].pc = "llm"
    /\ Len(outcomes) = Len(run[p].toGen)
    /\ run' = [run EXCEPT ![p].pc = "render",
                          ![p].enriched = [i \in 1..Len(outcomes) |->
                                              Enriched(run[p].toGen[i], outcomes[i])],
                          ![p].llmCalls = SumCalls(outcomes)]
    /\ UNCHANGED <<fs, now, disk, mgr, upd, ret, det, hist, scan, pool>>

\* RenderStep, had the cache been updated before the templates are rendered
RenderStep_UpdateFirst(p, ok) ==
    /\ run[p].pc = "render"
    /\ run' = [run EXCEPT ![p] =
                  IF ok THEN [@ EXCEPT !.pc = "update", !.enriched = <<>>]
                  ELSE Finish(@, "template rendering failed")]
    /\ mgr' = [mgr EXCEPT ![p] = UpdateAll(@, fs, now, run[p].toGen)]
    /\ UNCHANGED <<fs, now, disk, upd, ret, det, hist, scan, pool>>

\* steps 6 and 7: buildTemplateData, templateEng.RenderAll
RenderStep(p, ok) ==
    /\ run[p].pc = "render"
    /\ run' = [run EXCEPT ![p] =
                  IF ok THEN [@ EXCEPT !.pc = "update", !.enriched = <<>>]
                  ELSE Finish(@, "template rendering failed")]
    /\ UNCHANGED <<fs, now, disk, mgr, upd, ret, det, hist, scan, pool>>

\* step 8: cacheManager.Update for every component of componentsToGen
UpdateStep(p) ==
    /\ run[p].pc = "update"
    /\ mgr' = [mgr EXCEPT ![p] = UpdateAll(@, fs, now, run[p].toGen)]
    /\ run' = [run EXCEPT ![p].pc = "save"]
    /\ UNCHANGED <<fs, now, disk, upd, ret, det, hist, scan, pool>>

\* cacheManager.Save, and the return
SaveStep(p) ==
    /\ run[p].pc = "save"
    /\ disk' = SaveFile(mgr[p], now, disk)
    /\ mgr' = [mgr EXCEPT ![p] = SaveManager(@, now)]
    /\ run' = [run EXCEPT ![p] = Finish(@, "ok")]
    /\ hist' = IF mgr[p].enabled
               THEN [hist EXCEPT !.lastSaver = p, !.cleared = FALSE,
                                 !.base = run[p].alone]
               ELSE hist
    /\ UNCHANGED <<fs, now, upd, ret, det, scan, pool>>

\* runCacheClear: cacheMgr.Clear
ClearStep(p, removeOk) ==
    /\ run[p].pc = "clear"
    /\ disk' = ClearFile(mgr[p], disk, removeOk)
    /\ mgr' = [mgr EXCEPT ![p] = ClearManager(@)]
    /\ run' = [run EXCEPT ![p] =
                  Finish(@, IF ClearError(mgr[p], disk, removeOk)
                            THEN "failed to clear cache" ELSE "ok")]
    /\ hist' = [hist EXCEPT !.cleared = ~ClearError(mgr[p], disk, removeOk),
                            !.base = FALSE,
                            !.lastSaver = IF disk' = disk THEN @ ELSE 0]
    /\ UNCHANGED <<fs, now, upd, ret, det, scan, pool>>

\* somebody edits the working tree
RepoChange(path, c) ==
    /\ fs[path] # c
    /\ hist.edits < MaxEdits
    /\ fs' = [fs EXCEPT ![path] = c]
    /\ run' = [q \in Procs |-> [run[q] EXCEPT !.alone = FALSE]]
    /\ hist' = [hist EXCEPT !.base = FALSE, !.edits = @ + 1]
    /\ UNCHANGED <<now, disk, mgr, upd, ret, det, scan, pool>>

NextRuns ==
    \/ \E p \in Procs, cmd \in {"generate", "clear"}, e \in BOOLEAN : Start(p, cmd, e)
    \/ \E p \in Procs : AnalyzeStep(p)
    \/ \E p \in Procs : LoadStep(p)
    \/ \E p \in Procs : SelectStep(p)
    \/ \E p \in Procs, ok \in BOOLEAN : TemplateStep(p, ok)
    \/ \E p \in Procs, outcomes \in SeqsUpTo(LLMOutcomes, Cardinality(RunPaths)) :
          LLMStep(p, outcomes)
    \/ \E p \in Procs, ok \in BOOLEAN : RenderStep(p, ok)
    \/ \E p \in Procs : UpdateStep(p)
    \/ \E p \in Procs : SaveStep(p)
    \/ \E p \in Procs, removeOk \in BOOLEAN : ClearStep(p, removeOk)
    \/ \E path \in RunPaths, c \in RunContents : RepoChange(path, c)
    \/ Tick

SpecRuns == InitRuns /\ [][NextRuns]_vars

(***************************************************************************)
(* Generate runs against a provider whose faults are drawn at the start:   *)
(* pool.faults says for which components (by path) its calls fail, and     *)
(* which of the two calls.  Nobody edits the tree or clears the cache.     *)
(***************************************************************************)
RunDirs == {SubSeq(path, 1, 2) : path \in RunPaths}
ProviderFaults ==
    {[d \in {} |-> "ok"]}
    \cup {[d \in {dir} |-> o] : dir \in RunDirs, o \in LLMOutcomes \ {"ok"}}

\* what the two calls do for each of the components
OutcomesOf(faults, components) ==
    [i \in 1..Len(components) |->
        IF components[i].Path \in DOMAIN faults THEN faults[components[i].Path]
        ELSE "ok"]

InitRetry ==
    /\ fs \in [RunPaths -> RunContents]
    /\ now = 0
    /\ disk = NoCacheFile
    /\ \E ttl \in 0..MaxTTL : mgr = [p \in Procs |-> NewManager(TRUE, ttl)]
    /\ upd = [n \in ApiNames |-> NoCall]
    /\ ret = NoRet
    /\ det = NotDetected
    /\ run = [p \in Procs |-> IdleRun]
    /\ hist = NoHist
    /\ scan = NoScan
    /\ \E faults \in ProviderFaults : pool = [NoPool EXCEPT !.faults = faults]

NextRetry ==
    \/ \E p \in Procs, e \in BOOLEAN : Start(p, "generate", e)
    \/ \E p \in Procs : AnalyzeStep(p)
    \/ \E p \in Procs : LoadStep(p)
    \/ \E p \in Procs : SelectStep(p)
    \/ \E p \in Procs, ok \in BOOLEAN : TemplateStep(p, ok)
    \/ \E p \in Procs : LLMStep(p, OutcomesOf(pool.faults, run[p].toGen))
    \/ \E p \in Procs, ok \in BOOLEAN : RenderStep(p, ok)
    \/ \E p \in Procs : UpdateStep(p)
    \/ \E p \in Procs : SaveStep(p)
    \/ Tick

SpecRetry == InitRetry /\ [][NextRetry]_vars

(***************************************************************************)
(* Claims about the cache API (checked under SpecCache).                   *)
(***************************************************************************)
Entries == mgr[1].cache.Components
LastCall == upd[ret.name]

\* IsStale has just returned for the name and file list of the most recent
\* Update, the listed files hold what they held then, and no more than the
\* time-to-live has passed since
FreshlyUpdated ==
    /\ ret.op = "IsStale"
    /\ LastCall.called
    /\ LastCall.files = ret.files
    /\ DataOf(fs, ret.files) = LastCall.dataAt
    /\ now - LastCall.at <= mgr[1].ttl

\* C1 as stated: IsStale(name, files) returns false after Update(name, files)
\* with the same file list, unchanged contents and the time-to-live not elapsed.
C1_AsStated == FreshlyUpdated => ~ret.stale

\* C1 amended: with caching enabled, IsStale(name, files) returns false after
\* Update(name, files) with the same file list, unchanged contents and the
\* time-to-live not elapsed.
C1_FreshAfterUpdate == FreshlyUpdated /\ mgr[1].enabled => ~ret.stale

C1_Witness ==
    /\ FreshlyUpdated /\ mgr[1].enabled /\ ~ret.stale
    /\ Len(ret.files) = 2
    /\ now > LastCall.at

Bytes(f) == IF f.ok THEN f.data ELSE <<>>

ByteChanged ==
    /\ LastCall.files = ret.files
    /\ \E i \in 1..Len(ret.files) : Bytes(fs[ret.files[i]]) # Bytes(LastCall.dataAt[i])

Without(s, i) == [j \in 1..(Len(s) - 1) |-> IF j < i THEN s[j] ELSE s[j + 1]]
OneMore(short, long) == \E i \in 1..Len(long) : Without(long, i) = short
OnePathAddedOrRemoved ==
    OneMore(LastCall.files, ret.files) \/ OneMore(ret.files, LastCall.files)

\* C2: after Update(name, files), with the time-to-live not elapsed,
\* IsStale(name, files') returns true whenever a byte of a listed file has
\* changed or files' is files with one path added or removed.
C2_StaleOnAnyChange ==
    /\ ret.op = "IsStale"
    /\ LastCall.called
    /\ now - LastCall.at <= mgr[1].ttl
    /\ ByteChanged \/ OnePathAddedOrRemoved
    => ret.stale

\* C3: IsStale returns true exactly when caching is disabled, or there is no
\* entry for the name, or more than the time-to-live has passed since the
\* entry's last refresh, or the recomputed digest differs from the stored
\* one; the first of these that holds, in this order, decides.
C3_StaleExactlyWhen ==
    ret.op = "IsStale" =>
        LET disabled == ~mgr[1].enabled
            absent   == ret.name \notin DOMAIN Entries
            expired  == ~absent /\ now - Entries[ret.name].LastGenerated > mgr[1].ttl
            modified == ~absent /\
                        hashFiles(fs, ret.files) # Entries[ret.name].FilesHash
        IN /\ ret.stale = (disabled \/ absent \/ expired \/ modified)
           /\ ret.why = "disabled" <=> disabled
           /\ ret.why = "not cached" <=> ~disabled /\ absent
           /\ ret.why = "expired" <=> ~disabled /\ expired
           /\ ret.why = "modified" <=> ~disabled /\ ~expired /\ modified
           /\ ret.why = "valid" <=> ~ret.stale

\* stale by age alone: the content is what was hashed, and also stale by both
C3_Witness ==
    /\ ret.op = "IsStale" /\ ret.stale /\ ret.why = "expired"
    /\ hashFiles(fs, ret.files) = Entries[ret.name].FilesHash

\* C4 as stated: after every Update call the cache holds an entry for the name
\* with the digest of the files as they are now and the time of the call.
FreshEntry ==
    /\ ret.name \in DOMAIN Entries
    /\ Entries[ret.name].FilesHash = Sum(hashInput(fs, ret.files))
    /\ Entries[ret.name].Hash = Sum(<<ret.name, Sum(hashInput(fs, ret.files))>>)
    /\ Entries[ret.name].LastGenerated = now
    /\ Entries[ret.name].Files = ret.files
    /\ DOMAIN Entries[ret.name] = {"Hash", "FilesHash", "LastGenerated", "Files"}

C4_AsStated == ret.op = "Update" => FreshEntry

\* C4 amended: with caching enabled, after every Update call the cache holds an
\* entry for the name whose digest is that of the files as they are now and
\* whose timestamp is the time of the call, nothing kept from the entry before.
C4_UpdateReplaces == ret.op = "Update" /\ mgr[1].enabled => FreshEntry

C4_Witness ==
    /\ ret.op = "Update" /\ mgr[1].enabled /\ ret.had /\ FreshEntry
    /\ now > 0 /\ Len(ret.files) = 2

\* the entry of a component, if there is one
EntryOf(n) == IF n \in DOMAIN Entries THEN <<Entries[n]>> ELSE <<>>
\* what the most recent Update for a component wrote: nothing when there
\* was none or caching is disabled, else the digests of the files as they
\* were, the time of the call and the file list
Written(n) ==
    LET files == upd[n].files
        then == [p \in {files[i] : i \in 1..Len(files)} |->
                    upd[n].dataAt[CHOOSE i \in 1..Len(files) : files[i] = p]]
    IN IF ~upd[n].called \/ ~mgr[1].enabled THEN <<>>
       ELSE <<[Hash |-> Sum(<<n, Sum(hashInput(then, files))>>),
               FilesHash |-> Sum(hashInput(then, files)),
               LastGenerated |-> upd[n].at,
               Files |-> files]>>

\* C26: Update(name, files) leaves the entry of every other component as
\* it was, IsStale changes no entry, and so the entry of a component is at
\* all times exactly what the most recent Update for it wrote.
C26_UpdateFrame ==
    /\ [][/\ ret'.op = "Update" =>
               \A n \in Names \ {ret'.name} : EntryOf(n)' = EntryOf(n)
          /\ ret'.op = "IsStale" => mgr' = mgr]_vars
    /\ [](\A n \in Names : EntryOf(n) = Written(n))
\* b is updated while a holds an older entry, written before x changed
C26_Witness ==
    /\ ret.op = "Update" /\ ret.name = "b" /\ mgr[1].enabled
    /\ upd["a"].called /\ upd["a"].at < now
    /\ upd["a"].files = ret.files /\ ret.files # <<>>
    /\ EntryOf("a") = Written("a")
    /\ Entries["a"].FilesHash # Entries["b"].FilesHash

(***************************************************************************)
(* Claims about the commands (checked under SpecRuns).                     *)
(***************************************************************************)
Generated(p) ==
    /\ run[p].cmd = "generate" /\ run[p].pc = "done" /\ run[p].result = "ok"
    /\ mgr[p].enabled

\* C5: two generate runs that overlap on one cache file can lose updates.
\* Each loads, updates its own copy and saves the whole file without a lock,
\* so the last Save wins: the file is exactly what the run that saved last
\* held in memory, whatever another run has saved since that run loaded.
C5_LastWriterWins ==
    \A p \in Procs :
        hist.lastSaver = p => disk.exists /\ disk.doc = Marshal(mgr[p].cache)

\* both runs have saved, and the file lacks an entry one of them saved
C5_Witness ==
    \E p \in Procs :
        /\ Generated(p) /\ Generated(Other(p))
        /\ hist.lastSaver = p
        /\ \E n \in DOMAIN mgr[Other(p)].cache.Components :
              n \notin DOMAIN disk.doc.components

PastSelect(r) == r.pc \in {"template", "llm", "render", "update", "save", "done"}

\* the run started after a generate run that ran alone on an unedited tree
\* had saved, with nothing edited, cleared or started since, caching on, and
\* no entry older than the time-to-live when it selected
SecondRunUnchanged(p) ==
    /\ run[p].cmd = "generate" /\ PastSelect(run[p])
    /\ mgr[p].enabled
    /\ run[p].afterBase /\ run[p].fresh

\* C6: after one generate run has completed and saved the cache, a second run
\* on the unchanged repository, with caching enabled and the time-to-live not
\* elapsed, finds no stale component and returns without regenerating, for
\* every repository layout.
C6_SecondRunUpToDate ==
    \A p \in Procs :
        SecondRunUnchanged(p) =>
            run[p].pc = "done" /\ run[p].result = "up to date"

\* what a manager with caching on holds after loading the cache file
Reloaded == Load(NewManager(TRUE, mgr[1].ttl), disk)

\* C7: after cache clear has returned successfully, and until a run saves
\* again, a manager that loads the cache file has no entries and reports
\* every component stale.
C7_ClearedThenEmpty ==
    hist.cleared =>
        /\ Reloaded.cache.Components = EmptyMap
        /\ \A i \in 1..Len(DetectComponents(fs)) :
              IsStale(Reloaded, fs, now, DetectComponents(fs)[i].Name,
                      DetectComponents(fs)[i].Files)

(***************************************************************************)
(* Claims about the detector (checked under SpecDetect).                   *)
(***************************************************************************)
Present == {p \in DOMAIN fs : fs[p].ok}
MonorepoDirs ==
    {SubSeq(p, 1, 2) : p \in {q \in Present : Len(q) >= 3 /\
                                   q[1] \in {"services", "apps", "packages", "libs"}}}
ManifestPresent == \E m \in RootManifests : fs[m].ok
EntryMatches ==
    {SubSeq(p, 1, 2) : p \in {q \in Present : Len(q) >= 2 /\ q[1] = "cmd"}}
    \cup {p \in Present : Len(p) = 2 /\ p[1] = "src" /\ HasMainPrefix(p[2])}
    \cup {p \in Present : Len(p) = 1 /\ HasMainPrefix(p[1])}
PathsFound == {det.components[i].Path : i \in 1..Len(det.components)}

\* C8: DetectComponents tries the monorepo, single-component and entry-point
\* strategies in that order and stops at the first that yields a component:
\* with a monorepo directory the result is the monorepo components only, even
\* beside a root manifest; without one, a root manifest gives the one root
\* component; the entry points contribute only when both yield none.
C8_FirstStrategyWins ==
    det.done =>
        IF MonorepoDirs # {}
        THEN /\ Len(det.components) = Cardinality(MonorepoDirs)
             /\ PathsFound = MonorepoDirs
        ELSE IF ManifestPresent
        THEN /\ Len(det.components) = 1
             /\ det.components[1].Path = <<>>
             /\ det.components[1].Language
                    \in {"go", "python", "javascript", "rust", "java", "ruby", "csharp"}
        ELSE /\ Len(det.components) = Cardinality(EntryMatches)
             /\ PathsFound \subseteq {<<"cmd">>, <<"src">>, <<>>}

\* all three strategies would find something; only the monorepo's is returned
C8_Witness ==
    /\ det.done
    /\ Cardinality(MonorepoDirs) = 2 /\ fs[<<"go.mod">>].ok /\ fs[<<"main.go">>].ok
    /\ Len(det.components) = 2

\* the manifest signatures in the order detectSingleComponent asks for them
Signatures ==
    <<[language |-> "go", files |-> {<<"go.mod">>}],
      [language |-> "python", files |-> {<<"setup.py">>, <<"pyproject.toml">>}],
      [language |-> "javascript", files |-> {<<"package.json">>}],
      [language |-> "rust", files |-> {<<"Cargo.toml">>}],
      [language |-> "java",
       files |-> {<<"pom.xml">>, <<"build.gradle">>, <<"build.gradle.kts">>}],
      [language |-> "ruby", files |-> {<<"Gemfile">>}],
      [language |-> "csharp", files |-> {<<"app.csproj">>}]>>
Signed(i) == \E m \in Signatures[i].files : fs[m].ok
FirstSigned ==
    CHOOSE i \in 1..Len(Signatures) : Signed(i) /\ \A j \in 1..(i - 1) : ~Signed(j)
LaterManifests == UNION {Signatures[j].files : j \in (FirstSigned + 1)..Len(Signatures)}
WithoutLater == [p \in DOMAIN fs |-> IF p \in LaterManifests THEN NoFile ELSE fs[p]]

C10_NamesUnique ==
    det.done =>
        \A i, j \in 1..Len(det.components) :
            i # j => det.components[i].Name # det.components[j].Name

(***************************************************************************)
(* Claims about the detector on any root path (checked under SpecDetectAt).*)
(***************************************************************************)
\* C11: for every component the detector returns, under every strategy and
\* every root path given to the detector, the component's path is a prefix
\* of every entry of its file list.
C11_PathPrefixesFiles ==
    det.done =>
        \A i \in 1..Len(det.components) :
            \A k \in 1..Len(det.components[i].Files) :
                IsPrefix(det.components[i].Path, det.components[i].Files[k])

(***************************************************************************)
(* Claims about the kind of a component (checked under SpecKinds).         *)
(***************************************************************************)
Frameworks == {"react", "vue", "angular"}
FrameworkSuggested(dir) ==
    \E fw \in Frameworks :
        \/ LowerContains(Base(dir), fw)
        \/ \E i \in 1..Len(ReadDir(fs, dir)) : LowerContains(ReadDir(fs, dir)[i], fw)

KindAsStated(c) ==
    IF Stat(fs, c.Path \o <<"Dockerfile">>) THEN "service"
    ELSE IF FrameworkSuggested(c.Path) THEN "frontend"
    ELSE IF c.Language = "ruby" /\ Stat(fs, c.Path \o <<"config", "routes.rb">>)
    THEN "service"
    ELSE "library"

\* C12: for every component, under every strategy, the kind is service if a
\* Dockerfile is present in the component's directory; otherwise frontend if
\* the directory name or a file beside it suggests a UI framework; otherwise
\* library, except a Ruby repository with a routes file, which is service.
C12_KindRule ==
    det.done =>
        \A i \in 1..Len(det.components) :
            det.components[i].Type = KindAsStated(det.components[i])

(***************************************************************************)
(* Claims about enrichment (checked under SpecEnrich).                     *)
(***************************************************************************)
\* a path below a directory Scanner.shouldExclude always excludes
UnderPruned(p) == \E i \in 1..(Len(p) - 1) : p[i] \in alwaysExclude

\* C18: after enrichment a component's file list holds no file under a
\* directory of the Scanner's prune list, and its hasTests flag is true
\* exactly when at least one file of that list is a test file.
C18_EnrichedFiles ==
    det.done =>
        \A i \in 1..Len(det.components) :
            LET c == det.components[i]
            IN /\ \A k \in 1..Len(c.Files) : ~UnderPruned(c.Files[k])
               /\ c.HasTests <=> \E k \in 1..Len(c.Files) : isTestFile(c.Files[k])

(***************************************************************************)
(* Claims about the scanner (checked under SpecScan, where the working     *)
(* tree never changes between two scans).                                  *)
(***************************************************************************)
\* C14: two scans of the same unchanged tree give the same file records in
\* the same order and the same rendered tree string.
C14_ScanTwiceSame ==
    \A i, j \in 1..Len(scan.runs) :
        /\ scan.runs[i].files = scan.runs[j].files
        /\ scan.runs[i].FileTree = scan.runs[j].FileTree

\* a directory that is on the built-in list or matches a caller's pattern
ExcludedDir(d) ==
    \/ Base(d) \in alwaysExclude
    \/ \E k \in 1..Len(scan.excludePatterns) : MatchPath(scan.excludePatterns[k], d)
InsideExcluded(p) == \E k \in 1..(Len(p) - 1) : ExcludedDir(SubSeq(p, 1, k))

\* C15: no file record of a scan lies inside a directory that is on the
\* built-in exclusion list or matches a caller-supplied pattern.
C15_NoRecordInsideExcluded ==
    \A i \in 1..Len(scan.runs) :
        \A k \in 1..Len(scan.runs[i].files) :
            ~InsideExcluded(scan.runs[i].files[k].Path)

\* a scan has returned records although the tree holds a file inside a
\* directory of the built-in list and one inside a directory that only a
\* caller's pattern excludes
C15_Witness ==
    /\ Len(scan.runs) > 0
    /\ ~scan.runs[1].err
    /\ Len(scan.runs[1].files) > 0
    /\ IsFile(fs, <<"vendor", "lib_test.go">>)
    /\ IsFile(fs, <<"docs", "guide.md">>)
    /\ \E k \in 1..Len(scan.excludePatterns) :
           MatchPath(scan.excludePatterns[k], <<"docs">>)

\* the regular files a scan has to record: those that are not inside an
\* excluded directory and are not themselves named by the built-in list or
\* matched by a caller's pattern
ToRecord == {p \in FilesOf(fs) : ~InsideExcluded(p) /\ ~ExcludedDir(p)}

RECURSIVE SumCounts(_, _)
SumCounts(counts, keys) ==
    IF keys = {} THEN 0
    ELSE LET k == CHOOSE x \in keys : TRUE
         IN counts[k] + SumCounts(counts, keys \ {k})

\* C16: a scan records every regular file that is not excluded exactly once
\* and nothing else, TotalFiles is the number of records, and the language
\* counts add up to the number of records that have a language.
C16_OneRecordPerFile ==
    \A i \in 1..Len(scan.runs) :
        LET r == scan.runs[i]
        IN ~r.err =>
               /\ \A p \in ToRecord :
                      Cardinality({k \in 1..Len(r.files) : r.files[k].Path = p}) = 1
               /\ \A k \in 1..Len(r.files) : r.files[k].Path \in ToRecord
               /\ r.TotalFiles = Len(r.files)
               /\ SumCounts(r.Languages, DOMAIN r.Languages)
                      = Cardinality({k \in 1..Len(r.files) : r.files[k].Language # ""})

\* C17: a scan fails exactly when the root itself cannot be read; an
\* unreadable entry below the root is skipped and the scan still succeeds.
C17_OnlyRootFails ==
    \A i \in 1..Len(scan.runs) : scan.runs[i].err <=> IsDenied(fs, <<>>)

(***************************************************************************)
(* Claims about the analysis of a repository (checked under SpecAnalyze).  *)
(***************************************************************************)
ComponentAt(path) ==
    {i \in 1..Len(det.components) : det.components[i].Path = path}

\* the scenario: services/a holds a go.mod with three dependencies and a
\* Dockerfile, services/b a package.json with two runtime dependencies, a
\* file that names a frontend framework and no Dockerfile
Scenario ==
    LET gomod == fs[<<"services", "a", "go.mod">>]
        package == fs[<<"services", "b", "package.json">>]
    IN /\ gomod.ok /\ Len(gomod.data) = 3
       /\ \A i, j \in 1..3 : gomod.data[i] = gomod.data[j] => i = j
       /\ IsFile(fs, <<"services", "a", "Dockerfile">>)
       /\ package.ok /\ Head(package.data).valid
       /\ Len(Head(package.data).dependencies) = 2
       /\ ~IsFile(fs, <<"services", "b", "Dockerfile">>)
       /\ IsFile(fs, <<"services", "b", "react.js">>)

\* C13: the scenario is analyzed into exactly two components, a of kind
\* service with 3 dependencies and b of kind frontend with 2 dependencies,
\* each with the language of its manifest.
C13_ScenarioAnalyzed ==
    (det.done /\ Scenario) =>
        /\ ~det.err
        /\ Len(det.components) = 2
        /\ \E i \in ComponentAt(<<"services", "a">>) :
               LET a == det.components[i]
               IN /\ a.Name = "a" /\ a.Type = "service" /\ a.Language = "go"
                  /\ Len(a.Dependencies) = 3
        /\ \E i \in ComponentAt(<<"services", "b">>) :
               LET b == det.components[i]
               IN /\ b.Name = "b" /\ b.Type = "frontend"
                  /\ b.Language \in {"javascript", "typescript"}
                  /\ Len(b.Dependencies) = 2

\* the manifests the dependencies of a language are declared in
ManifestsFor(language) ==
    CASE language = "go" -> {"go.mod"}
      [] language = "python" -> {"requirements.txt", "pyproject.toml"}
      [] language \in {"javascript", "typescript"} -> {"package.json"}
      [] language = "rust" -> {"Cargo.toml"}
      [] language = "java" -> {"pom.xml", "build.gradle", "build.gradle.kts"}
      [] language = "ruby" -> {"Gemfile"}
      [] language = "csharp" -> {"app.csproj"}
      [] OTHER -> {}
ManifestsOf(c) ==
    {c.Path \o <<m>> : m \in ManifestsFor(c.Language)} \cap FilesOf(fs)

UnclosedDependency == <<"<", "dependency", ">">> \o Coordinates(2) \o Version(2)

\* a package.json that does not parse, a TOML file with a line that is no
\* key and value, a pom.xml with an element that is never closed
Malformed(p) ==
    LET lines == fs[p].data
    IN CASE Base(p) = "package.json" -> ~Head(lines).valid
         [] Base(p) \in {"pyproject.toml", "Cargo.toml"} ->
                \E i \in 1..Len(lines) : lines[i] = <<"=", "=">>
         [] Base(p) = "pom.xml" ->
                \E i \in 1..Len(lines) : lines[i] = UnclosedDependency
         [] OTHER -> FALSE

\* C19: the analysis does not fail, and a component whose manifest does not
\* exist or is malformed has no dependencies, whatever the manifests of the
\* other components are.
C19_MissingOrMalformedIsEmpty ==
    det.done =>
        /\ ~det.err
        /\ \A i \in 1..Len(det.components) :
               LET c == det.components[i]
               IN (ManifestsOf(c) = {} \/ \E p \in ManifestsOf(c) : Malformed(p))
                      => c.Dependencies = <<>>

\* the well-formed ways to declare dependencies in a manifest: the lines
\* that open and close the declarations, and what each declaring line
\* between them declares
Declared(name, version) == Dependency(name, <<version>>)
Plain(declares) == [prefix |-> <<>>, suffix |-> <<>>, declares |-> declares]
Coordinate1 == <<"g1", ":", "a1">>
Coordinate2 == <<"g2", ":", "a2">>
Gradle ==
    Plain((<<"implementation", "'", "g1", ":", "a1", ":", "v1", "'">>
               :> Declared(Coordinate1, "v1"))
          @@ (<<"implementation", "(", "\"", "g1", ":", "a1", ":", "v1", "\"", ")">>
               :> Declared(Coordinate1, "v1"))
          @@ (<<"api", "'", "g2", ":", "a2", ":", "v2", "'">>
               :> Declared(Coordinate2, "v2")))
WellFormed(file) ==
    CASE file = "go.mod" ->
             {Plain([line \in SingleRequires |-> Declared(<<line[2]>>, line[3])]),
              [prefix |-> <<<<"require", "(">>>>, suffix |-> <<<<")">>>>,
               declares |-> (<<"n1", "v1">> :> Declared(<<"n1">>, "v1"))
                            @@ (<<"n2", "v2">> :> Declared(<<"n2">>, "v2"))]}
      [] file = "requirements.txt" ->
             {Plain(<<"n1", "=", "=", "v1">> :> Declared(<<"n1">>, "v1"))}
      [] file = "pyproject.toml" ->
             {[prefix |-> <<<<"[", "tool.poetry.dependencies", "]">>>>, suffix |-> <<>>,
               declares |-> (<<"n1", "=">> \o Quoted("v1")) :> Declared(<<"n1">>, "v1")],
              [prefix |-> <<<<"[", "project", "]">>>>, suffix |-> <<>>,
               declares |->
                   <<"dependencies", "=", "[", "\"", "n1", "=", "=", "v1", "\"", "]">>
                       :> Declared(<<"n1">>, "v1")]}
      [] file = "Cargo.toml" ->
             {[prefix |-> <<<<"[", "dependencies", "]">>>>, suffix |-> <<>>,
               declares |->
                   ((<<"n1", "=">> \o Quoted("v1")) :> Declared(<<"n1">>, "v1"))
                   @@ ((<<"n2", "=", "{", "version", "=">> \o Quoted("v2") \o <<"}">>)
                          :> Declared(<<"n2">>, "v2"))]}
      [] file = "pom.xml" ->
             {[prefix |-> <<<<"<", "project", ">">>, Coordinates(0) \o Version(0)>>,
               suffix |-> <<<<"<", "/", "project", ">">>>>,
               declares |->
                   (<<"<", "dependency", ">">> \o Coordinates(1) \o Version(1)
                        \o <<"<", "/", "dependency", ">">>)
                       :> Declared(Coordinate1, "v1")]}
      [] file \in {"build.gradle", "build.gradle.kts"} -> {Gradle}
      [] file = "Gemfile" ->
             {Plain(<<"gem", "'", "n1", "'", ",", "'", "v1", "'">>
                        :> Declared(<<"n1">>, "v1"))}
      [] file = "app.csproj" ->
             {Plain(((<<"<", "PackageReference", "Include", "=">> \o Quoted("n1")
                          \o <<"Version", "=">> \o Quoted("v1") \o <<"/", ">">>)
                        :> Declared(<<"n1">>, "v1"))
                    @@ ((<<"<", "PackageReference", "Include", "=">> \o Quoted("n2")
                            \o <<">">> \o Element("Version", "v2")
                            \o <<"<", "/", "PackageReference", ">">>)
                        :> Declared(<<"n2">>, "v2")))}
      [] OTHER -> {}

\* the lines between the opening and the closing lines of a way to declare
Body(way, lines) == SubSeq(lines, Len(way.prefix) + 1, Len(lines) - Len(way.suffix))
Minimal(way, lines) ==
    /\ Len(lines) >= Len(way.prefix) + Len(way.suffix)
    /\ SubSeq(lines, 1, Len(way.prefix)) = way.prefix
    /\ SubSeq(lines, Len(lines) - Len(way.suffix) + 1, Len(lines)) = way.suffix
    /\ \A k \in 1..Len(Body(way, lines)) : Body(way, lines)[k] \in DOMAIN way.declares

RootManifest == {m \in ManifestNames : IsFile(fs, <<m>>)}

\* C20: a manifest made of N well-formed declarations and nothing else
\* yields exactly the N declared name and version pairs, in the order of
\* declaration (in any order for a package.json).
C20_DeclaredAreExtracted ==
    det.done =>
        \A m \in RootManifest :
            LET lines == fs[<<m>>].data
                deps == det.components[1].Dependencies
            IN IF m = "package.json"
               THEN Head(lines).valid =>
                        /\ Len(det.components) = 1
                        /\ Len(deps) = Len(Head(lines).dependencies)
                        /\ \A k \in 1..Len(Head(lines).dependencies) :
                               \E j \in 1..Len(deps) :
                                   deps[j] = Declared(<<Head(lines).dependencies[k][1]>>,
                                                      Head(lines).dependencies[k][2])
               ELSE \A way \in WellFormed(m) :
                        Minimal(way, lines) =>
                            /\ Len(det.components) = 1
                            /\ deps = [k \in 1..Len(Body(way, lines)) |->
                                          way.declares[Body(way, lines)[k]]]

\* the version-constraint operators of a requirements list, and where the
\* first one stands in a line
Operators == {<<"=", "=">>, <<">", "=">>, <<"<", "=">>, <<"~", "=">>, <<"!", "=">>}
OperatorsAt(line) == {k \in 1..(Len(line) - 1) : SubSeq(line, k, k + 1) \in Operators}
Required(line) ==
    IF line = <<>> \/ Head(line) = "#" THEN <<>>
    ELSE IF OperatorsAt(line) = {} THEN <<Dependency(line, <<>>)>>
    ELSE LET k == CHOOSE k \in OperatorsAt(line) : \A j \in OperatorsAt(line) : k <= j
         IN <<Dependency(SubSeq(line, 1, k - 1), SubSeq(line, k + 2, Len(line)))>>

\* C21: every line of a requirements list that is neither blank nor a
\* comment yields one dependency, named by the text before the operator
\* and with the text after it as its version; a line without an operator
\* yields the whole line as the name and the empty version.
C21_RequirementLines ==
    (det.done /\ IsFile(fs, <<"requirements.txt">>)) =>
        /\ Len(det.components) = 1
        /\ det.components[1].Dependencies
               = Flatten([i \in 1..Len(fs[<<"requirements.txt">>].data) |->
                             Required(fs[<<"requirements.txt">>].data[i])])

\* the lines of a TOML manifest: a section header, a key with a quoted
\* version, a key with an inline table that holds the version
IsHeader(line) == Len(line) = 3 /\ line[1] = "[" /\ line[3] = "]"
IsQuotedValue(line) ==
    Len(line) = 5 /\ line[2] = "=" /\ line[3] = "\"" /\ line[5] = "\""
    /\ line[1] \notin {"=", "[", "]"}
IsInlineTable(line) ==
    Len(line) = 9 /\ SubSeq(line, 2, 6) = <<"=", "{", "version", "=", "\"">>
    /\ SubSeq(line, 8, 9) = <<"\"", "}">>
DependencySections(file) ==
    IF file = "Cargo.toml" THEN {"dependencies"}
    ELSE {"tool.poetry.dependencies", "project.dependencies"}
\* what the key and value lines of the dependency sections declare
RECURSIVE KeyValues(_, _, _)
KeyValues(lines, sections, inside) ==
    IF lines = <<>> THEN <<>>
    ELSE LET line == Head(lines)
         IN IF IsHeader(line) THEN KeyValues(Tail(lines), sections, line[2] \in sections)
            ELSE (IF ~inside THEN <<>>
                  ELSE IF IsQuotedValue(line) THEN <<Declared(<<line[1]>>, line[4])>>
                  ELSE <<Declared(<<line[1]>>, line[7])>>)
                 \o KeyValues(Tail(lines), sections, inside)

\* C22: in a Cargo.toml or a pyproject.toml made of section headers and
\* key = value lines, each such line of a dependency section, and no line
\* outside one, yields one dependency named by the key, whose version is
\* the declared version without its quotes, be it given as a string or
\* inside an inline table.
C22_SectionKeyValues ==
    det.done =>
        \A m \in RootManifest \cap {"Cargo.toml", "pyproject.toml"} :
            LET lines == fs[<<m>>].data
            IN (\A i \in 1..Len(lines) :
                    IsHeader(lines[i]) \/ IsQuotedValue(lines[i]) \/ IsInlineTable(lines[i]))
               => /\ Len(det.components) = 1
                  /\ det.components[1].Dependencies
                         = KeyValues(lines, DependencySections(m), FALSE)

\* the texts of the elements with the given tag, in the order in which they
\* stand in the file
TagValues(text, tag) ==
    LET at == SelectSeq([i \in 1..Len(text) |-> i],
                        LAMBDA i : /\ i + 7 <= Len(text)
                                   /\ SubSeq(text, i, i + 2) = <<"<", tag, ">">>
                                   /\ text[i + 3] \notin {"<", ">"}
                                   /\ SubSeq(text, i + 4, i + 7) = <<"<", "/", tag, ">">>)
    IN [n \in 1..Len(at) |-> text[at[n] + 3]]
PomGroups == TagValues(Flatten(fs[<<"pom.xml">>].data), "groupId")
PomArtifacts == TagValues(Flatten(fs[<<"pom.xml">>].data), "artifactId")
PomVersions == TagValues(Flatten(fs[<<"pom.xml">>].data), "version")

\* C23: the N-th dependency of a pom.xml is named by the N-th groupId and
\* the N-th artifactId of the file and carries the N-th version, wherever
\* these elements stand; with L elements of each kind there are exactly L
\* dependencies, and with differing counts a list is still returned and
\* the analysis does not fail.
C23_MavenPositional ==
    (det.done /\ IsFile(fs, <<"pom.xml">>)) =>
        LET deps == det.components[1].Dependencies
        IN /\ ~det.err
           /\ Len(det.components) = 1
           /\ \A n \in 1..Len(deps) :
                  /\ n <= Len(PomGroups) /\ n <= Len(PomArtifacts)
                  /\ deps[n].Name = <<PomGroups[n], ":", PomArtifacts[n]>>
                  /\ n <= Len(PomVersions) => deps[n].Version = <<PomVersions[n]>>
           /\ (Len(PomGroups) = Len(PomArtifacts) /\ Len(PomArtifacts) = Len(PomVersions))
                  => Len(deps) = Len(PomGroups)
           /\ (PomGroups # <<>> /\ PomArtifacts # <<>>) => deps # <<>>
\* three dependencies from a file with more groupIds than artifactIds and
\* fewer versions than either
C23_Witness ==
    /\ det.done /\ IsFile(fs, <<"pom.xml">>)
    /\ Len(det.components) = 1
    /\ Len(det.components[1].Dependencies) = 3
    /\ Len(PomGroups) = 4 /\ Len(PomArtifacts) = 3 /\ Len(PomVersions) = 2

\* C25: two Analyze runs against an unchanged repository return the same
\* sequence of components, each with its files and its dependencies in the
\* same order, whatever the manifest format.
C25_AnalyzeTwiceSame ==
    [][(det.done /\ det'.done /\ fs' = fs) => det'.components = det.components]_vars

(***************************************************************************)
(* Claims about the steps of ExecuteGenerate (checked under SpecRuns).     *)
(***************************************************************************)
EntriesOf(p) == mgr[p].cache.Components
Generating(p) == run[p].cmd = "generate" /\ Active(run[p])
NamesOf(components) == {components[i].Name : i \in 1..Len(components)}
\* the component of the selection that is updated last under a name
LastNamed(components, n) ==
    components[CHOOSE i \in 1..Len(components) :
                   /\ components[i].Name = n
                   /\ \A j \in (i + 1)..Len(components) : components[j].Name # n]

\* what a step may do to the cache of the run of process p
GenerateStep(p) ==
    LET stale == SelectSeq(run[p].components,
                           LAMBDA c : IsStale(mgr[p], fs, now, c.Name, c.Files))
    IN \* the selection is what IsStale says at the start of the run, and
       \* with nothing stale the run ends at once, no LLM call made
       /\ (run[p].pc = "select" /\ run'[p].pc # "select") =>
              IF stale = <<>>
              THEN /\ run'[p].pc = "done" /\ run'[p].result = "up to date"
                   /\ run'[p].llmCalls = 0
              ELSE run'[p].pc = "template" /\ run'[p].toGen = stale
       \* the entries change when the file is loaded and in step 8 only,
       \* and step 8 follows nothing but a successful rendering
       /\ (Generating(p) /\ EntriesOf(p)' # EntriesOf(p)) =>
              run[p].pc \in {"load", "update"}
       /\ (run[p].pc # "update" /\ run'[p].pc = "update") =>
              run[p].pc = "render" /\ run'[p].toGen = run[p].toGen
       \* step 8 updates exactly the selected components
       /\ (run[p].pc = "update" /\ run'[p].pc # "update") =>
              /\ mgr[p].enabled => NamesOf(run[p].toGen) \subseteq DOMAIN EntriesOf(p)'
              /\ \A n \in DOMAIN EntriesOf(p)' :
                     IF mgr[p].enabled /\ n \in NamesOf(run[p].toGen)
                     THEN EntriesOf(p)'[n]
                              = ComponentCache(fs, now, n, LastNamed(run[p].toGen, n).Files)
                     ELSE n \in DOMAIN EntriesOf(p) /\ EntriesOf(p)'[n] = EntriesOf(p)[n]
       \* a run that ends otherwise than well has changed and written nothing
       /\ (Generating(p) /\ run'[p].pc = "done" /\ run'[p].result # "ok") =>
              mgr' = mgr /\ disk' = disk
       /\ (Generating(p) /\ run'[p].pc = "done" /\ run'[p].result = "ok") =>
              run[p].pc = "save"

\* C27: a generate run updates and saves the cache only after the
\* templates have been rendered, and updates exactly the components that
\* IsStale selected at its start; a run that finds nothing stale, or whose
\* template fails to load or to render, changes no entry and writes no
\* file, and with nothing stale it makes no LLM call.
C27_UpdateAfterRender ==
    [][/\ \A p \in Procs : GenerateStep(p)
       /\ disk' # disk =>
              \E q \in Procs : run[q].pc \in {"save", "clear"} /\ run'[q].pc = "done"]_vars
\* a run alone: the LLM was called, the rendering failed, and there is
\* neither an entry nor a cache file
C27_Witness ==
    /\ hist.started = 1 /\ mgr[1].enabled
    /\ run[1].pc = "done" /\ run[1].result = "template rendering failed"
    /\ run[1].llmCalls > 0
    /\ EntriesOf(1) = EmptyMap /\ ~disk.exists

\* the components for which the analysis call, or any call, fails
AnalysisFails(c) ==
    c.Path \in DOMAIN pool.faults /\ pool.faults[c.Path] = "analyze failed"
CallFails(c) == c.Path \in DOMAIN pool.faults

\* C28: a failed LLM call does not abort the run: generateWithLLM returns
\* one entry per selected component, in order, with the placeholder for a
\* component whose analysis failed and the generated text for the others;
\* after step 8 the cache holds the entry of the failed component as of
\* any other; and the next run on the unchanged repository, within the
\* time-to-live, does not select a component whose call had failed.
C28_FailedCallGoesOn ==
    \A p \in Procs :
        /\ run[p].result # "LLM generation failed"
        /\ run[p].pc = "render" =>
               /\ Len(run[p].enriched) = Len(run[p].toGen)
               /\ \A i \in 1..Len(run[p].toGen) :
                      LET c == run[p].toGen[i]
                          e == run[p].enriched[i]
                      IN /\ e.Component = c
                         /\ e.Overview = IF AnalysisFails(c)
                                         THEN <<"Documentation for ", c.Name>>
                                         ELSE <<"overview">>
        /\ (run[p].pc = "save" /\ mgr[p].enabled) =>
               \A i \in 1..Len(run[p].toGen) :
                   LET c == run[p].toGen[i]
                   IN CallFails(c) =>
                      /\ c.Name \in DOMAIN EntriesOf(p)
                      /\ EntriesOf(p)[c.Name].Files = c.Files
                      /\ EntriesOf(p)[c.Name].FilesHash = hashFiles(fs, c.Files)
        /\ (SecondRunUnchanged(p) /\ run[p].pc = "template") =>
               \A i \in 1..Len(run[p].toGen) : ~CallFails(run[p].toGen[i])

(***************************************************************************)
(* Claims about the LLM pool (checked under SpecPool and SpecPoolFair).    *)
(***************************************************************************)
\* the goroutines whose provider call is running inside Execute
Running == {g \in Goroutines : pool.call[g].pc = "fn"}
Waiting == {g \in Goroutines : pool.call[g].pc = "select"}

\* C24: at every moment at most maxConcurrent provider calls run inside
\* Execute, whoever the callers are, and maxConcurrent is the limit the
\* pool was built with, or 5 when that limit is not positive.
C24_BoundedFanOut ==
    /\ Cardinality(Running) <= pool.maxConcurrent
    /\ pool.limit > 0 => pool.maxConcurrent = pool.limit
    /\ pool.limit <= 0 => pool.maxConcurrent = 5
\* the limit reached by GenerateParallel and the other caller together,
\* with two more goroutines waiting for a slot
C24_Witness ==
    /\ pool.limit = 2
    /\ Cardinality(Running) = 2 /\ Direct \in Running
    /\ Cardinality(Waiting) = 2

\* C29, at every moment: a goroutine has run fn at most once, holds a slot
\* exactly while fn runs, and has returned either the context's error
\* without running fn or what fn returned after running it once.
ExecuteOnce ==
    /\ pool.semaphore = Cardinality(Running)
    /\ \A g \in Goroutines :
           LET c == pool.call[g]
           IN /\ c.ran <= 1
              /\ c.pc = "fn" => c.ran = 1
              /\ c.pc \in {"none", "select"} => c.ran = 0
              /\ c.pc \in {"returned", "done"} =>
                     IF c.err = "ctx" THEN c.ran = 0 ELSE c.ran = 1
NoSlotHeld == \A g \in Workers : g \notin Running

\* C29: Execute runs fn exactly once while holding one slot, or returns
\* the context's error without running fn, and the slot is free again
\* when fn has returned, well or badly; and when every provider call
\* terminates, GenerateParallel returns, for any number of requests, and
\* none of its goroutines holds a slot then.
C29_ExecuteOnceAndReturns ==
    /\ [](ExecuteOnce /\ (pool.gp = "returned" => NoSlotHeld))
    /\ (pool.gp = "wait") ~> (pool.gp = "returned")
\* three requests through a pool of one slot: one has run and failed, one
\* was turned away by the cancelled context
C29_Witness ==
    /\ pool.gp = "returned" /\ pool.maxConcurrent = 1 /\ Len(pool.requests) = 3
    /\ pool.semaphore = 0
    /\ \E g, h \in Workers :
           /\ pool.call[g].ran = 1 /\ pool.call[g].err = "failed"
           /\ pool.call[h].ran = 0 /\ pool.call[h].err = "ctx"

\* the requests of GenerateParallel that failed
Failed == {i \in 1..Len(pool.requests) : pool.call[i].err # ""}

\* C30: when GenerateParallel has returned, the goroutine of every request
\* has finished; results[i] is the text produced for requests[i], empty
\* for a request that failed; the error names the lowest failing index,
\* and there is no error when no request failed.
C30_ResultsByIndex ==
    pool.gp = "returned" =>
        /\ \A i \in 1..Len(pool.requests) : pool.call[i].pc = "done"
        /\ pool.wg = 0
        /\ Len(pool.ret.results) = Len(pool.requests)
        /\ \A i \in 1..Len(pool.requests) :
               pool.ret.results[i] = IF i \in Failed THEN <<>>
                                     ELSE <<"doc", pool.requests[i]>>
        /\ Failed = {} => pool.ret.failed = -1
        /\ Failed # {} =>
               /\ pool.ret.failed + 1 \in Failed
               /\ \A i \in Failed : pool.ret.failed + 1 <= i
\* three requests, the first answered and the other two failed
C30_Witness ==
    /\ pool.gp = "returned" /\ Len(pool.requests) = 3
    /\ Failed = {2, 3}
    /\ pool.ret.failed = 1
    /\ pool.ret.results[1] = <<"doc", <<"request", 1>>>>

====
